---- MODULE Spec2Model ----
(***************************************************************************)
(* Model of src/src/main.cpp: the participant registry (app.entries under  *)
(* app.entries_mutex), the engagement gate (app.join_open), the round      *)
(* state kept in AppState, the input handlers of main(), frame() and the   *)
(* chat receive thread's line handler.                                     *)
(*                                                                         *)
(* Units.  The source computes in float seconds and radians.  The model    *)
(* uses exact integers: one time unit is 0.5 s and one angle unit is       *)
(* pi/4 rad, so 2*pi is 8 units and 1.0 s is 2 units.  Float rounding is   *)
(* not modelled.                                                           *)
(*                                                                         *)
(* Threads.  The tick thread (main loop: input handlers, then frame) and   *)
(* the chat thread interleave.  They touch each other only through         *)
(* app.entries (always under entries_mutex) and the atomic app.join_open,  *)
(* so every critical section is one step, and code that touches neither    *)
(* is merged into the neighbouring step of its thread: a frame is one step *)
(* unless it resets the round, where the clear and the host re-add are two *)
(* critical sections with the chat thread free to run in between.          *)
(***************************************************************************)
EXTENDS Integers, Sequences, FiniteSets, TLC

\* ---------------------------------------------------------------- bounds
\* largest dt of one frame, in time units (2 = 1.0 s)
MaxDt == 2
\* celebration_time is only displayed; values above the bound are merged
MaxCelebrationTime == 2

\* ------------------------------------------------------ program constants
\* 2*pi in angle units (frame, pointer_slice_index)
TWO_PI == 8
\* 12 o'clock: -pi/2
POINTER_ANGLE == -2
\* requiredHold = 1.0f
RequiredHold == 2
\* winner_flash_remaining = 2.0f
FlashSeconds == 4
\* number of entries of palette[] in random_color
PaletteSize == 4
\* reset_hold_source values
SourceNone == 0
SourceSpace == 1
SourceMouse == 2

\* spinSpeed(10.0f, 13.0f) rad/s is 6.4 .. 8.3 angle units per time unit
SpinSpeeds == {7, 8}
\* spinFriction(1.8f, 5.6f) rad/s^2 is 0.6 .. 1.8 angle units per time unit^2
SpinFrictions == {1}
\* float spin_friction = 3.0f (0.95 angle units per time unit^2)
InitialFriction == 1

Dts == 0..MaxDt

\* names chat users can have; "" is a failed sender extraction
Senders == {"", "alice", "Alice"}
\* the values wheel_set_host can be called with
Nicks == {"", "alice"}
Channels == {"#alice"}
\* the configurations load_twitch_config can produce: complete, no nick,
\* no credential, no channel
Configs ==
    {[oauth |-> "oauth:tok", nick |-> "alice", channel |-> "#alice"],
     [oauth |-> "oauth:tok", nick |-> "", channel |-> "#alice"],
     [oauth |-> "", nick |-> "alice", channel |-> "#alice"],
     [oauth |-> "oauth:tok", nick |-> "alice", channel |-> ""]}
NoConfig == [oauth |-> "", nick |-> "", channel |-> ""]

Builds == {"native", "emscripten"}

VARIABLES
    build,        \* which side of #ifdef __EMSCRIPTEN__ was compiled
    cfg,          \* g_twitch_cfg
    app,          \* the AppState fields of the core (fonts, textures, the
                  \* background drift and celebration_color are rendering)
    palette_idx,  \* static idx of random_color, kept modulo PaletteSize
    main_pc,      \* position of the tick thread
    reseed_ret,   \* where the tick thread continues after the host re-add
    frame_dt,     \* dt of the frame in progress
    entriesCopy,  \* frame's snapshot of app.entries
    chat_pc,      \* position of the chat thread
    chat_user,    \* username the chat thread is about to add
    chat_sent,    \* the lines send_line has put on the socket at login
    twitchRunning, \* the flag the chat thread's receive loop tests
    timer,        \* app.timer: the countdown and the calls made to it
    fn            \* the function under test and its data (FnSpec only)

vars == <<build, cfg, app, palette_idx, main_pc, reseed_ret, frame_dt,
          entriesCopy, chat_pc, chat_user, chat_sent, twitchRunning, timer,
          fn>>

\* ---------------------------------------------------------------- helpers
Min(a, b) == IF a < b THEN a ELSE b

Names(entries) == {entries[i].name : i \in 1..Len(entries)}

\* std::fmod: the result has the sign of x
fmod(x, m) == IF x >= 0 THEN x % m ELSE -((-x) % m)

AppState0 ==
    [entries |-> <<>>,
     current_angle |-> 0,
     angular_velocity |-> 0,
     spinning |-> FALSE,
     winner_index |-> -1,
     winner_flash_remaining |-> 0,
     winner_flash_elapsed |-> 0,
     celebration_active |-> FALSE,
     celebration_time |-> 0,
     celebration_name |-> "",
     spin_friction |-> InitialFriction,
     reset_hold_active |-> FALSE,
     reset_hold_elapsed |-> 0,
     reset_hold_source |-> SourceNone,
     join_open |-> FALSE]

\* ------------------------------------------------------------ the registry
\* random_color with idx.load() in place of idx.fetch_add(1)
random_color_stuck(idx) == [color |-> idx % PaletteSize, idx |-> idx]

\* random_color with idx.fetch_add(2)
random_color_skip(idx) ==
    [color |-> idx % PaletteSize, idx |-> (idx + 2) % PaletteSize]

\* random_color: the palette entry handed out, and the counter afterwards.
\* Only idx % PaletteSize is observable and PaletteSize divides 2^32, so the
\* uint32 counter is kept modulo PaletteSize.
random_color(idx) ==
    [color |-> idx % PaletteSize, idx |-> (idx + 1) % PaletteSize]

\* add_player_if_new with insert at begin() in place of push_back
add_player_if_new_front(name, entries, idx) ==
    IF name = "" \/ name \in Names(entries)
    THEN [entries |-> entries, idx |-> idx]
    ELSE LET c == random_color(idx)
         IN [entries |-> <<[name |-> name, color |-> c.color]>> \o entries,
             idx |-> c.idx]

\* add_player_if_new with random_color called before the tests
add_player_if_new_eager(name, entries, idx) ==
    LET c == random_color(idx)
    IN IF name = "" \/ name \in Names(entries)
       THEN [entries |-> entries, idx |-> c.idx]
       ELSE [entries |-> Append(entries, [name |-> name, color |-> c.color]),
             idx |-> c.idx]

\* add_player_if_new without the find_if
add_player_if_new_nofind(name, entries, idx) ==
    IF name = "" THEN [entries |-> entries, idx |-> idx]
    ELSE LET c == random_color(idx)
         IN [entries |-> Append(entries, [name |-> name, color |-> c.color]),
             idx |-> c.idx]

\* add_player_if_new: the whole function is one critical section
add_player_if_new(name, entries, idx) ==
    IF name = "" THEN [entries |-> entries, idx |-> idx]
    ELSE IF \E i \in 1..Len(entries) : entries[i].name = name
         THEN [entries |-> entries, idx |-> idx]
         ELSE LET c == random_color(idx)
              IN [entries |-> Append(entries, [name |-> name, color |-> c.color]),
                  idx |-> c.idx]

\* ------------------------------------------------------------ round state
winnerShowing(a) == a.celebration_active \/ a.winner_index >= 0

\* a spin start that also puts the wheel back to angle 0
StartSpin_rewound(a, v, f) ==
    [a EXCEPT !.spinning = TRUE,
              !.winner_index = -1,
              !.winner_flash_remaining = 0,
              !.winner_flash_elapsed = 0,
              !.spin_friction = f,
              !.angular_velocity = v,
              !.current_angle = 0]

\* the assignments of a spin start (handle_spin_or_reset and wheel_spin)
StartSpin(a, v, f) ==
    [a EXCEPT !.spinning = TRUE,
              !.winner_index = -1,
              !.winner_flash_remaining = 0,
              !.winner_flash_elapsed = 0,
              !.spin_friction = f,
              !.angular_velocity = v]

\* handle_spin_or_reset without the test of join_open before a spin
handle_spin_or_reset_nogate(a, v, f) ==
    IF winnerShowing(a)
    THEN [app |-> [a EXCEPT !.celebration_active = FALSE,
                            !.celebration_time = 0,
                            !.celebration_name = "",
                            !.winner_flash_remaining = 0,
                            !.winner_flash_elapsed = 0,
                            !.winner_index = -1,
                            !.spinning = FALSE,
                            !.angular_velocity = 0,
                            !.entries = <<>>,
                            !.join_open = FALSE],
          didReset |-> TRUE]
    ELSE IF Len(a.entries) >= 2 /\ ~a.spinning
         THEN [app |-> StartSpin(a, v, f), didReset |-> FALSE]
         ELSE [app |-> a, didReset |-> FALSE]

\* handle_spin_or_reset, the block under entries_mutex: the new AppState and
\* didReset.  v and f are the two draws from global_rng().
handle_spin_or_reset(a, v, f) ==
    IF winnerShowing(a)
    THEN [app |-> [a EXCEPT !.celebration_active = FALSE,
                            !.celebration_time = 0,
                            !.celebration_name = "",
                            !.winner_flash_remaining = 0,
                            !.winner_flash_elapsed = 0,
                            !.winner_index = -1,
                            !.spinning = FALSE,
                            !.angular_velocity = 0,
                            !.entries = <<>>,
                            !.join_open = FALSE],
          didReset |-> TRUE]
    ELSE IF Len(a.entries) >= 2 /\ ~a.spinning /\ ~a.join_open
         THEN [app |-> StartSpin(a, v, f), didReset |-> FALSE]
         ELSE [app |-> a, didReset |-> FALSE]

\* pointer_slice_index without "if (a < 0.0f) a += TWO_PI"
pointer_slice_index_nowrap(current_angle, n) ==
    IF n <= 0 THEN -1
    ELSE LET a == fmod(POINTER_ANGLE - current_angle, TWO_PI)
             index == (a * n) \div TWO_PI
         IN IF index >= n THEN n - 1 ELSE index

\* pointer_slice_index: a / sliceAngle with sliceAngle = TWO_PI / n
pointer_slice_index(current_angle, n) ==
    IF n <= 0 THEN -1
    ELSE LET a0 == fmod(POINTER_ANGLE - current_angle, TWO_PI)
             a == IF a0 < 0 THEN a0 + TWO_PI ELSE a0
             index == (a * n) \div TWO_PI
         IN IF index >= n THEN n - 1 ELSE index


\* frame_physics without the std::fmod wrap of current_angle
frame_physics_nowrap(a, n, copy, dt) ==
    LET angle == a.current_angle + a.angular_velocity * dt
        friction == IF a.spin_friction > 0 THEN a.spin_friction ELSE 0
        vel == a.angular_velocity - friction * dt
        idx == pointer_slice_index(angle, n)
        moved == [a EXCEPT !.current_angle = angle, !.angular_velocity = vel]
        stopped == [moved EXCEPT !.angular_velocity = 0, !.spinning = FALSE]
        won == IF idx >= 0 /\ idx < n
               THEN [stopped EXCEPT !.winner_index = idx,
                                    !.celebration_active = TRUE,
                                    !.celebration_time = 0,
                                    !.celebration_name = copy[idx + 1].name,
                                    !.winner_flash_remaining = FlashSeconds,
                                    !.winner_flash_elapsed = 0]
               ELSE stopped
        a1 == IF a.spinning /\ n > 0
              THEN IF vel <= 0 THEN won ELSE moved
              ELSE a
        a2 == IF a1.winner_flash_remaining > 0
              THEN [a1 EXCEPT !.winner_flash_remaining =
                                  IF a1.winner_flash_remaining - dt < 0
                                  THEN 0 ELSE a1.winner_flash_remaining - dt,
                              !.winner_flash_elapsed = a1.winner_flash_elapsed + dt]
              ELSE a1
    IN IF a2.celebration_active
       THEN [a2 EXCEPT !.celebration_time =
                           Min(a2.celebration_time + dt, MaxCelebrationTime)]
       ELSE a2

\* frame_physics without "app.angular_velocity = 0.0f" at the stop
frame_physics_noclamp(a, n, copy, dt) ==
    LET angle0 == fmod(a.current_angle + a.angular_velocity * dt, TWO_PI)
        angle == IF angle0 < 0 THEN angle0 + TWO_PI ELSE angle0
        friction == IF a.spin_friction > 0 THEN a.spin_friction ELSE 0
        vel == a.angular_velocity - friction * dt
        idx == pointer_slice_index(angle, n)
        moved == [a EXCEPT !.current_angle = angle, !.angular_velocity = vel]
        stopped == [moved EXCEPT !.spinning = FALSE]
        won == IF idx >= 0 /\ idx < n
               THEN [stopped EXCEPT !.winner_index = idx,
                                    !.celebration_active = TRUE,
                                    !.celebration_time = 0,
                                    !.celebration_name = copy[idx + 1].name,
                                    !.winner_flash_remaining = FlashSeconds,
                                    !.winner_flash_elapsed = 0]
               ELSE stopped
        a1 == IF a.spinning /\ n > 0
              THEN IF vel <= 0 THEN won ELSE moved
              ELSE a
        a2 == IF a1.winner_flash_remaining > 0
              THEN [a1 EXCEPT !.winner_flash_remaining =
                                  IF a1.winner_flash_remaining - dt < 0
                                  THEN 0 ELSE a1.winner_flash_remaining - dt,
                              !.winner_flash_elapsed = a1.winner_flash_elapsed + dt]
              ELSE a1
    IN IF a2.celebration_active
       THEN [a2 EXCEPT !.celebration_time =
                           Min(a2.celebration_time + dt, MaxCelebrationTime)]
       ELSE a2

\* frame_physics with "winner_flash_remaining -= dt" skipped in the frame that
\* armed it
frame_physics_flashkept(a, n, copy, dt) ==
    LET angle0 == fmod(a.current_angle + a.angular_velocity * dt, TWO_PI)
        angle == IF angle0 < 0 THEN angle0 + TWO_PI ELSE angle0
        friction == IF a.spin_friction > 0 THEN a.spin_friction ELSE 0
        vel == a.angular_velocity - friction * dt
        idx == pointer_slice_index(angle, n)
        moved == [a EXCEPT !.current_angle = angle, !.angular_velocity = vel]
        stopped == [moved EXCEPT !.angular_velocity = 0, !.spinning = FALSE]
        won == IF idx >= 0 /\ idx < n
               THEN [stopped EXCEPT !.winner_index = idx,
                                    !.celebration_active = TRUE,
                                    !.celebration_time = 0,
                                    !.celebration_name = copy[idx + 1].name,
                                    !.winner_flash_remaining = FlashSeconds,
                                    !.winner_flash_elapsed = 0]
               ELSE stopped
        a1 == IF a.spinning /\ n > 0
              THEN IF vel <= 0 THEN won ELSE moved
              ELSE a
        a2 == IF a1.winner_flash_remaining > 0 /\ (a.spinning => a1.spinning)
              THEN [a1 EXCEPT !.winner_flash_remaining =
                                  IF a1.winner_flash_remaining - dt < 0
                                  THEN 0 ELSE a1.winner_flash_remaining - dt,
                              !.winner_flash_elapsed = a1.winner_flash_elapsed + dt]
              ELSE a1
    IN IF a2.celebration_active
       THEN [a2 EXCEPT !.celebration_time =
                           Min(a2.celebration_time + dt, MaxCelebrationTime)]
       ELSE a2

\* frame_physics without "angular_velocity -= friction * dt"
frame_physics_nofriction(a, n, copy, dt) ==
    LET angle0 == fmod(a.current_angle + a.angular_velocity * dt, TWO_PI)
        angle == IF angle0 < 0 THEN angle0 + TWO_PI ELSE angle0
        friction == IF a.spin_friction > 0 THEN a.spin_friction ELSE 0
        vel == a.angular_velocity
        idx == pointer_slice_index(angle, n)
        moved == [a EXCEPT !.current_angle = angle, !.angular_velocity = vel]
        stopped == [moved EXCEPT !.angular_velocity = 0, !.spinning = FALSE]
        won == IF idx >= 0 /\ idx < n
               THEN [stopped EXCEPT !.winner_index = idx,
                                    !.celebration_active = TRUE,
                                    !.celebration_time = 0,
                                    !.celebration_name = copy[idx + 1].name,
                                    !.winner_flash_remaining = FlashSeconds,
                                    !.winner_flash_elapsed = 0]
               ELSE stopped
        a1 == IF a.spinning /\ n > 0
              THEN IF vel <= 0 THEN won ELSE moved
              ELSE a
        a2 == IF a1.winner_flash_remaining > 0
              THEN [a1 EXCEPT !.winner_flash_remaining =
                                  IF a1.winner_flash_remaining - dt < 0
                                  THEN 0 ELSE a1.winner_flash_remaining - dt,
                              !.winner_flash_elapsed = a1.winner_flash_elapsed + dt]
              ELSE a1
    IN IF a2.celebration_active
       THEN [a2 EXCEPT !.celebration_time =
                           Min(a2.celebration_time + dt, MaxCelebrationTime)]
       ELSE a2

\* frame, "Wheel physics", "Winner flashing state" and "Celebration banner
\* timer": n and copy are the snapshot taken at the top of the frame
frame_physics(a, n, copy, dt) ==
    LET angle0 == fmod(a.current_angle + a.angular_velocity * dt, TWO_PI)
        angle == IF angle0 < 0 THEN angle0 + TWO_PI ELSE angle0
        friction == IF a.spin_friction > 0 THEN a.spin_friction ELSE 0
        vel == a.angular_velocity - friction * dt
        idx == pointer_slice_index(angle, n)
        moved == [a EXCEPT !.current_angle = angle, !.angular_velocity = vel]
        stopped == [moved EXCEPT !.angular_velocity = 0, !.spinning = FALSE]
        won == IF idx >= 0 /\ idx < n
               THEN [stopped EXCEPT !.winner_index = idx,
                                    !.celebration_active = TRUE,
                                    !.celebration_time = 0,
                                    !.celebration_name = copy[idx + 1].name,
                                    !.winner_flash_remaining = FlashSeconds,
                                    !.winner_flash_elapsed = 0]
               ELSE stopped
        a1 == IF a.spinning /\ n > 0
              THEN IF vel <= 0 THEN won ELSE moved
              ELSE a
        a2 == IF a1.winner_flash_remaining > 0
              THEN [a1 EXCEPT !.winner_flash_remaining =
                                  IF a1.winner_flash_remaining - dt < 0
                                  THEN 0 ELSE a1.winner_flash_remaining - dt,
                              !.winner_flash_elapsed = a1.winner_flash_elapsed + dt]
              ELSE a1
    IN IF a2.celebration_active
       THEN [a2 EXCEPT !.celebration_time =
                           Min(a2.celebration_time + dt, MaxCelebrationTime)]
       ELSE a2

\* frame_hold with requiredHold half as long
frame_hold_short(a, dt) ==
    IF ~a.reset_hold_active THEN a
    ELSE IF ~winnerShowing(a) \/ a.reset_hold_elapsed + dt >= 1
         THEN [a EXCEPT !.reset_hold_active = FALSE,
                        !.reset_hold_elapsed = 0,
                        !.reset_hold_source = SourceNone]
         ELSE [a EXCEPT !.reset_hold_elapsed = a.reset_hold_elapsed + dt]

\* frame_hold without the cancelling of a hold that finds no winner
frame_hold_nocancel(a, dt) ==
    IF ~a.reset_hold_active \/ ~winnerShowing(a) THEN a
    ELSE IF a.reset_hold_elapsed + dt >= RequiredHold
         THEN [a EXCEPT !.reset_hold_active = FALSE,
                        !.reset_hold_elapsed = 0,
                        !.reset_hold_source = SourceNone]
         ELSE [a EXCEPT !.reset_hold_elapsed = a.reset_hold_elapsed + dt]

\* frame, the reset-hold block up to the call of handle_spin_or_reset
frame_hold(a, dt) ==
    IF ~a.reset_hold_active THEN a
    ELSE IF ~winnerShowing(a) \/ a.reset_hold_elapsed + dt >= RequiredHold
         THEN [a EXCEPT !.reset_hold_active = FALSE,
                        !.reset_hold_elapsed = 0,
                        !.reset_hold_source = SourceNone]
         ELSE [a EXCEPT !.reset_hold_elapsed = a.reset_hold_elapsed + dt]

\* the hold completes in this frame: frame calls handle_spin_or_reset
hold_completes(a, dt) ==
    /\ a.reset_hold_active
    /\ winnerShowing(a)
    /\ a.reset_hold_elapsed + dt >= RequiredHold

\* key down / left button down while a winner is showing
hold_start(a, source) ==
    IF ~a.reset_hold_active
    THEN [a EXCEPT !.reset_hold_active = TRUE,
                   !.reset_hold_elapsed = 0,
                   !.reset_hold_source = source]
    ELSE a

\* key up / left button up with the recorded source not looked at
hold_release_any(a, source) ==
    [a EXCEPT !.reset_hold_active = FALSE,
              !.reset_hold_elapsed = 0,
              !.reset_hold_source = SourceNone]

\* key up / left button up
hold_release(a, source) ==
    IF a.reset_hold_source = source
    THEN [a EXCEPT !.reset_hold_active = FALSE,
                   !.reset_hold_elapsed = 0,
                   !.reset_hold_source = SourceNone]
    ELSE a

\* right button down: the native loop toggles always, the browser loop only
\* when no winner is showing
toggle_join(b, a) ==
    IF b = "emscripten" /\ winnerShowing(a) THEN a
    ELSE [a EXCEPT !.join_open = ~a.join_open]

\* the browser loop ignores space and left click while the gate is open
press_ignored(b, a) == b = "emscripten" /\ a.join_open

\* main, SDL_EVENT_KEY_DOWN with SDLK_SPACE (source 1) and
\* SDL_EVENT_MOUSE_BUTTON_DOWN with SDL_BUTTON_LEFT (source 2)
key_or_click_down(b, a, source, v, f) ==
    IF press_ignored(b, a) THEN [app |-> a, didReset |-> FALSE]
    ELSE IF winnerShowing(a)
         THEN [app |-> hold_start(a, source), didReset |-> FALSE]
         ELSE handle_spin_or_reset(a, v, f)

\* frame up to the end of the locked block of handle_spin_or_reset
frame_locked(a, dt, v, f) ==
    IF hold_completes(a, dt)
    THEN handle_spin_or_reset(frame_hold(a, dt), v, f)
    ELSE [app |-> frame_hold(a, dt), didReset |-> FALSE]

\* a whole frame in which the host is not re-added
frame_no_reseed(a, dt, v, f) ==
    frame_physics(frame_locked(a, dt, v, f).app, Len(a.entries), a.entries, dt)

\* wheel_spin (browser export)
wheel_spin_body(a, v, f) ==
    IF Len(a.entries) < 2 \/ a.spinning \/ a.join_open THEN a
    ELSE StartSpin(a, v, f)

\* wheel_reset (browser export), the block under entries_mutex
wheel_reset_body(a) ==
    [a EXCEPT !.entries = <<>>,
              !.join_open = FALSE,
              !.spinning = FALSE,
              !.angular_velocity = 0,
              !.winner_index = -1,
              !.celebration_active = FALSE,
              !.celebration_time = 0,
              !.celebration_name = ""]

\* twitchEnabled without the test of cfg.channel
twitchEnabled_nochannel(c) == c.oauth /= "" /\ c.nick /= ""

\* twitchEnabled in main, and the first test of twitch_chat_thread
twitchEnabled(c) == c.oauth /= "" /\ c.nick /= "" /\ c.channel /= ""

NoCopy == <<>>

\* ------------------------------------------------------------- the timer
\* TimerState, timer_reset, timer_start and timer_stop are used by
\* set_join_open but defined outside main.cpp.  What is kept of the timer is
\* whether it runs and how often it was started and stopped; timer_reset
\* only sets the seconds to count, which are not kept.
Timer0 == [running |-> FALSE, starts |-> 0, stops |-> 0]

timer_start(t) == [t EXCEPT !.running = TRUE, !.starts = @ + 1]

timer_stop(t) == [t EXCEPT !.running = FALSE, !.stops = @ + 1]

\* set_join_open(a, open).  No handler calls it: the right-click handlers
\* and the resets store to join_open themselves.
set_join_open(a, t, open) ==
    IF a.join_open = open
    THEN [app |-> a, timer |-> t]
    ELSE [app |-> [a EXCEPT !.join_open = open],
          timer |-> IF open THEN timer_start(t) ELSE timer_stop(t)]

\* fn outside FnSpec
NoFn == [kind |-> "none"]

\* ------------------------------------------------------------------- Init
Init ==
    /\ build \in Builds
    /\ cfg \in Configs \cup {NoConfig}
    /\ build = "emscripten" <=> cfg = NoConfig
    /\ LET seed == IF build = "native"
                   THEN add_player_if_new(cfg.nick, <<>>, 0)
                   ELSE [entries |-> <<>>, idx |-> 0]
       IN /\ app = [AppState0 EXCEPT !.entries = seed.entries]
          /\ palette_idx = seed.idx
    /\ main_pc = "events"
    /\ reseed_ret = "events"
    /\ frame_dt = 0
    /\ entriesCopy = NoCopy
    /\ chat_pc = IF build = "native" /\ twitchEnabled(cfg)
                 THEN "connect" ELSE "off"
    /\ chat_user = ""
    /\ chat_sent = <<>>
    /\ twitchRunning = (build = "native" /\ twitchEnabled(cfg))
    /\ timer = Timer0
    /\ fn = NoFn

\* ------------------------------------------------- tick thread: the events
ChatUnchanged == UNCHANGED <<chat_pc, chat_user, chat_sent>>
FrameUnchanged == UNCHANGED <<frame_dt, entriesCopy>>

\* the tail of handle_spin_or_reset: the host is re-added after a reset
AfterSpinOrReset(r, ret) ==
    IF r.didReset /\ cfg.nick /= ""
    THEN main_pc' = "reseed" /\ reseed_ret' = ret
    ELSE main_pc' = "events" /\ reseed_ret' = "events"

\* SDLK_SPACE down (source 1) or left button down (source 2)
Press(source) ==
    /\ main_pc = "events"
    /\ \E v \in SpinSpeeds, f \in SpinFrictions :
         LET r == key_or_click_down(build, app, source, v, f)
         IN app' = r.app /\ AfterSpinOrReset(r, "events")
    /\ UNCHANGED <<build, twitchRunning, timer, fn, cfg, palette_idx>>
    /\ FrameUnchanged /\ ChatUnchanged

\* SDLK_SPACE up (source 1) or left button up (source 2)
Release(source) ==
    /\ main_pc = "events"
    /\ app' = hold_release(app, source)
    /\ UNCHANGED <<build, twitchRunning, timer, fn, cfg, palette_idx, main_pc, reseed_ret>>
    /\ FrameUnchanged /\ ChatUnchanged

\* right button down
RightClick ==
    /\ main_pc = "events"
    /\ app' = toggle_join(build, app)
    /\ UNCHANGED <<build, twitchRunning, timer, fn, cfg, palette_idx, main_pc, reseed_ret>>
    /\ FrameUnchanged /\ ChatUnchanged

\* ------------------------------------------------- tick thread: the frame
\* frame(cfg, dt).  Without a completed hold the whole frame is this step.
\* With one, the step ends after the locked block of handle_spin_or_reset;
\* when the host is to be re-added the frame continues in Reseed.
Frame(dt) ==
    /\ main_pc = "events"
    /\ \E v \in SpinSpeeds, f \in SpinFrictions :
         LET r == frame_locked(app, dt, v, f)
         IN IF r.didReset /\ cfg.nick /= ""
            THEN /\ app' = r.app
                 /\ main_pc' = "reseed"
                 /\ reseed_ret' = "frame"
                 /\ frame_dt' = dt
                 /\ entriesCopy' = app.entries
            ELSE /\ app' = frame_no_reseed(app, dt, v, f)
                 /\ UNCHANGED <<main_pc, reseed_ret>>
                 /\ FrameUnchanged
    /\ UNCHANGED <<build, twitchRunning, timer, fn, cfg, palette_idx>>
    /\ ChatUnchanged

\* the end of handle_spin_or_reset or wheel_reset: add_player_if_new(cfg.nick)
\* in a critical section of its own; inside a frame the rest of the frame
\* follows
Reseed ==
    /\ main_pc = "reseed"
    /\ LET r == add_player_if_new(cfg.nick, app.entries, palette_idx)
           a == [app EXCEPT !.entries = r.entries]
       IN /\ app' = IF reseed_ret = "frame"
                    THEN frame_physics(a, Len(entriesCopy), entriesCopy, frame_dt)
                    ELSE a
          /\ palette_idx' = r.idx
    /\ main_pc' = "events"
    /\ reseed_ret' = "events"
    /\ frame_dt' = 0
    /\ entriesCopy' = NoCopy
    /\ UNCHANGED <<build, twitchRunning, timer, fn, cfg>>
    /\ ChatUnchanged

\* ------------------------------------------------------ browser exports
wheel_join(user) ==
    /\ build = "emscripten"
    /\ main_pc = "events"
    /\ LET r == IF user /= "" /\ (app.join_open
                                  \/ (app.entries = <<>> /\ cfg.nick = user))
                THEN add_player_if_new(user, app.entries, palette_idx)
                ELSE [entries |-> app.entries, idx |-> palette_idx]
       IN /\ app' = [app EXCEPT !.entries = r.entries]
          /\ palette_idx' = r.idx
    /\ UNCHANGED <<build, twitchRunning, timer, fn, cfg, main_pc, reseed_ret>>
    /\ FrameUnchanged /\ ChatUnchanged

wheel_set_host(nick, channel) ==
    /\ build = "emscripten"
    /\ main_pc = "events"
    /\ cfg' = [cfg EXCEPT !.nick = nick, !.channel = channel]
    /\ UNCHANGED <<build, twitchRunning, timer, fn, app, palette_idx, main_pc, reseed_ret>>
    /\ FrameUnchanged /\ ChatUnchanged

wheel_reset ==
    /\ build = "emscripten"
    /\ main_pc = "events"
    /\ app' = wheel_reset_body(app)
    /\ IF cfg.nick /= ""
       THEN main_pc' = "reseed" /\ reseed_ret' = "events"
       ELSE UNCHANGED <<main_pc, reseed_ret>>
    /\ UNCHANGED <<build, twitchRunning, timer, fn, cfg, palette_idx>>
    /\ FrameUnchanged /\ ChatUnchanged

wheel_spin ==
    /\ build = "emscripten"
    /\ main_pc = "events"
    /\ \E v \in SpinSpeeds, f \in SpinFrictions :
         app' = wheel_spin_body(app, v, f)
    /\ UNCHANGED <<build, twitchRunning, timer, fn, cfg, palette_idx, main_pc, reseed_ret>>
    /\ FrameUnchanged /\ ChatUnchanged

\* ------------------------------------------------------------ chat thread
\* the three login lines of twitch_chat_thread, as command and argument
LoginLines(c) ==
    <<[cmd |-> "PASS", arg |-> c.oauth],
      [cmd |-> "NICK", arg |-> c.nick],
      [cmd |-> "JOIN", arg |-> c.channel]>>

\* "while (running.load())" with the flag never looked at
loop_test_deaf(running) == "recv"

\* "while (running.load())": where the chat thread is after the test.  The
\* test is taken right after the step before it, so "recv" is a thread
\* inside recv(); a flag cleared later is seen after that recv returns.
loop_test(running) == IF running THEN "recv" ELSE "done"

\* what recv returns besides data: WSAETIMEDOUT, another error, 0 bytes
RecvFailures == {"timeout", "error", "closed"}

\* twitch_chat_thread with break on WSAETIMEDOUT as on any other error
recv_failed_nocontinue(outcome, running) == "done"

\* the receive loop after recv returned no data: continue on a timeout,
\* break on another error and on a closed connection
recv_failed(outcome, running) ==
    IF outcome = "timeout" THEN loop_test(running) ELSE "done"

\* twitch_chat_thread up to the connected socket: WSAStartup, getaddrinfo
\* and connect succeed (ok), or one of them fails and the thread returns
ChatConnect(ok) ==
    /\ chat_pc = "connect"
    /\ chat_pc' = IF ok THEN "login" ELSE "done"
    /\ UNCHANGED <<build, twitchRunning, timer, fn, cfg, app, palette_idx, main_pc,
                   reseed_ret, chat_user, chat_sent>>
    /\ FrameUnchanged

\* the login with the result of send_line ignored
ChatLogin_ignorefail(ok) ==
    /\ chat_pc = "login"
    /\ chat_sent' = IF ok
                    THEN Append(chat_sent, LoginLines(cfg)[Len(chat_sent) + 1])
                    ELSE chat_sent
    /\ chat_pc' = IF ok /\ Len(chat_sent) + 1 < Len(LoginLines(cfg))
                  THEN "login" ELSE loop_test(twitchRunning)
    /\ UNCHANGED <<build, twitchRunning, timer, fn, cfg, app, palette_idx,
                   main_pc, reseed_ret, chat_user>>
    /\ FrameUnchanged

\* one send_line of the login: the next line goes out (ok), or send fails
\* and the thread returns; after the third line the receive loop starts
ChatLogin(ok) ==
    /\ chat_pc = "login"
    /\ IF ok
       THEN /\ chat_sent' =
                 Append(chat_sent, LoginLines(cfg)[Len(chat_sent) + 1])
            /\ chat_pc' = IF Len(chat_sent) + 1 = Len(LoginLines(cfg))
                          THEN loop_test(twitchRunning) ELSE "login"
       ELSE chat_pc' = "done" /\ UNCHANGED chat_sent
    /\ UNCHANGED <<build, twitchRunning, timer, fn, cfg, app, palette_idx, main_pc,
                   reseed_ret, chat_user>>
    /\ FrameUnchanged

\* recv returns without data
ChatRecv(outcome) ==
    /\ chat_pc = "recv"
    /\ chat_pc' = recv_failed(outcome, twitchRunning)
    /\ UNCHANGED <<build, twitchRunning, timer, fn, cfg, app, palette_idx,
                   main_pc, reseed_ret, chat_user, chat_sent>>
    /\ FrameUnchanged

\* a received line, as far as handle_irc_line distinguishes lines here: the
\* extracted username and whether the lower-cased text starts with "!join"
Lines == [sender : Senders, join : BOOLEAN]

\* handle_irc_line without the test of join_open
handle_irc_line_nogate(line) ==
    /\ chat_pc = "recv"
    /\ IF line.join
       THEN chat_pc' = "add" /\ chat_user' = line.sender
       ELSE chat_pc' = loop_test(twitchRunning) /\ UNCHANGED chat_user
    /\ UNCHANGED chat_sent
    /\ UNCHANGED <<build, twitchRunning, timer, fn, cfg, app, palette_idx, main_pc, reseed_ret>>
    /\ FrameUnchanged

\* handle_irc_line up to the call of add_player_if_new: the gate is read
handle_irc_line(line) ==
    /\ chat_pc = "recv"
    /\ IF line.join /\ app.join_open
       THEN chat_pc' = "add" /\ chat_user' = line.sender
       ELSE chat_pc' = loop_test(twitchRunning) /\ UNCHANGED chat_user
    /\ UNCHANGED chat_sent
    /\ UNCHANGED <<build, twitchRunning, timer, fn, cfg, app, palette_idx, main_pc, reseed_ret>>
    /\ FrameUnchanged

\* handle_irc_line: add_player_if_new, under the mutex
ChatAdd ==
    /\ chat_pc = "add"
    /\ LET r == add_player_if_new(chat_user, app.entries, palette_idx)
       IN /\ app' = [app EXCEPT !.entries = r.entries]
          /\ palette_idx' = r.idx
    /\ chat_pc' = loop_test(twitchRunning)
    /\ chat_user' = ""
    /\ UNCHANGED chat_sent
    /\ UNCHANGED <<build, twitchRunning, timer, fn, cfg, main_pc, reseed_ret>>
    /\ FrameUnchanged

\* ------------------------------------------------------------------- Next
Next ==
    \/ \E source \in {SourceSpace, SourceMouse} : Press(source)
    \/ \E source \in {SourceSpace, SourceMouse} : Release(source)
    \/ RightClick
    \/ \E dt \in Dts : Frame(dt)
    \/ Reseed
    \/ \E user \in Senders : wheel_join(user)
    \/ \E nick \in Nicks, channel \in Channels : wheel_set_host(nick, channel)
    \/ wheel_reset
    \/ wheel_spin
    \/ \E ok \in BOOLEAN : ChatConnect(ok)
    \/ \E ok \in BOOLEAN : ChatLogin(ok)
    \/ \E outcome \in RecvFailures : ChatRecv(outcome)
    \/ \E line \in Lines : handle_irc_line(line)
    \/ ChatAdd

Spec == Init /\ [][Next]_vars

\* ----------------------------------------------------- a third chat user
\* Spec has two chat users, who are both on the wheel once it can spin.
\* CrowdSpec is the same program with a third, who can still join then.
Crowd == Senders \cup {"bob"}
CrowdLines == [sender : Crowd, join : BOOLEAN]

CrowdNext ==
    \/ \E source \in {SourceSpace, SourceMouse} : Press(source)
    \/ \E source \in {SourceSpace, SourceMouse} : Release(source)
    \/ RightClick
    \/ \E dt \in Dts : Frame(dt)
    \/ Reseed
    \/ \E user \in Crowd : wheel_join(user)
    \/ \E nick \in Nicks, channel \in Channels : wheel_set_host(nick, channel)
    \/ wheel_reset
    \/ wheel_spin
    \/ \E ok \in BOOLEAN : ChatConnect(ok)
    \/ \E ok \in BOOLEAN : ChatLogin(ok)
    \/ \E outcome \in RecvFailures : ChatRecv(outcome)
    \/ \E line \in CrowdLines : handle_irc_line(line)
    \/ ChatAdd

CrowdSpec == Init /\ [][CrowdNext]_vars

\* ---------------------------------------------------------- the shutdown
\* The native main loop ends on SDL_EVENT_QUIT or Escape; main then clears
\* twitchRunning and joins the chat thread, if it started one.  ShutdownSpec
\* is the native program with that end; Spec is every program up to it.
Quit ==
    /\ build = "native"
    /\ main_pc = "events"
    /\ twitchRunning' = FALSE
    /\ main_pc' = IF twitchEnabled(cfg) THEN "join" ELSE "exited"
    /\ UNCHANGED <<build, timer, fn, cfg, app, palette_idx, reseed_ret>>
    /\ FrameUnchanged /\ ChatUnchanged

\* twitchThread.join() returns once twitch_chat_thread has returned
Join ==
    /\ main_pc = "join"
    /\ chat_pc = "done"
    /\ main_pc' = "exited"
    /\ UNCHANGED <<build, twitchRunning, timer, fn, cfg, app, palette_idx,
                   reseed_ret>>
    /\ FrameUnchanged /\ ChatUnchanged

ChatStep ==
    \/ \E ok \in BOOLEAN : ChatConnect(ok)
    \/ \E ok \in BOOLEAN : ChatLogin(ok)
    \/ \E outcome \in RecvFailures : ChatRecv(outcome)
    \/ \E line \in Lines : handle_irc_line(line)
    \/ ChatAdd

ShutdownInit == Init /\ build = "native"

ShutdownNext ==
    \/ \E source \in {SourceSpace, SourceMouse} : Press(source)
    \/ \E source \in {SourceSpace, SourceMouse} : Release(source)
    \/ RightClick
    \/ \E dt \in Dts : Frame(dt)
    \/ Reseed
    \/ \E ok \in BOOLEAN : ChatConnect(ok)
    \/ \E ok \in BOOLEAN : ChatLogin(ok)
    \/ \E outcome \in RecvFailures : ChatRecv(outcome)
    \/ \E line \in Lines : handle_irc_line(line)
    \/ ChatAdd
    \/ Quit
    \/ Join

\* Once the flag is cleared the chat thread keeps being scheduled, and its
\* blocking calls return: recv has SO_RCVTIMEO of 200 ms.  join() returns
\* when the thread has.
ShutdownSpec ==
    /\ ShutdownInit
    /\ [][ShutdownNext]_vars
    /\ WF_vars(~twitchRunning /\ ChatStep)
    /\ WF_vars(Join)

\* The main loop calls frame on every iteration and nothing in it blocks, so
\* frames keep coming; a frame has dt > 0 once a millisecond has passed.
PositiveFrame == \E dt \in Dts \ {0} : Frame(dt)
LiveSpec == Init /\ [][Next]_vars /\ WF_vars(PositiveFrame)

\* -------------------------------------------------------- lines of chat
\* A std::string is the sequence of its characters; positions count from 0
\* as in the source and npos is -1.
npos == -1

\* s.find(pat, from)
find(s, pat, from) ==
    LET hits == {i \in from..(Len(s) - Len(pat)) :
                    SubSeq(s, i + 1, i + Len(pat)) = pat}
    IN IF hits = {} THEN npos
       ELSE CHOOSE i \in hits : \A j \in hits : i <= j

\* s.rfind(pat, 0) == 0
starts_with(s, pat) ==
    Len(s) >= Len(pat) /\ SubSeq(s, 1, Len(pat)) = pat

\* s.substr(pos) and s.substr(pos, len)
substr(s, pos) == SubSeq(s, pos + 1, Len(s))
substr_n(s, pos, len) == SubSeq(s, pos + 1, pos + len)

UpperCase == <<"A", "B", "C", "D", "E", "F", "G", "H", "I", "J", "K", "L", "M", "N",
              "O", "P", "Q", "R", "S", "T", "U", "V", "W", "X", "Y", "Z">>
LowerCase == <<"a", "b", "c", "d", "e", "f", "g", "h", "i", "j", "k", "l", "m", "n",
              "o", "p", "q", "r", "s", "t", "u", "v", "w", "x", "y", "z">>

\* std::tolower in the "C" locale
tolower(c) ==
    IF \E i \in 1..Len(UpperCase) : UpperCase[i] = c
    THEN LowerCase[CHOOSE i \in 1..Len(UpperCase) : UpperCase[i] = c]
    ELSE c

to_lower(s) == [i \in 1..Len(s) |-> tolower(s[i])]

\* the entries of ALLOWED in is_stream_allowed
ALLOWED == {<<"c", "b", "f", "0", "1">>,
            <<"s", "h", "o", "e", "p", "e", "r", "t">>}

\* is_stream_allowed without the ch.erase(0, 1)
is_stream_allowed_nostrip(nick, channel) ==
    LET n == to_lower(nick)
        ch == to_lower(channel)
    IN \E allowed \in ALLOWED : n = allowed \/ ch = allowed

\* is_stream_allowed(nick, channel)
is_stream_allowed(nick, channel) ==
    LET n == to_lower(nick)
        ch0 == IF channel /= <<>> /\ channel[1] = "#"
               THEN substr(channel, 1) ELSE channel
        ch == to_lower(ch0)
    IN \E allowed \in ALLOWED : n = allowed \/ ch = allowed

CRLF == <<"\r", "\n">>
\* the zero byte
NUL == "NUL"

\* recvBuffer.append(buffer) after buffer[bytes] = '\0': append(const char*)
\* takes the characters before the first zero byte
append_c_str(recvBuffer, buffer) ==
    LET z == find(buffer, <<NUL>>, 0)
    IN recvBuffer \o (IF z = npos THEN buffer ELSE substr_n(buffer, 0, z))

\* the inner while of twitch_chat_thread: every complete line leaves
\* recvBuffer and goes to handle_irc_line
RECURSIVE extract_lines(_, _)
extract_lines(recvBuffer, lines) ==
    LET pos == find(recvBuffer, CRLF, 0)
    IN IF pos = npos THEN [recvBuffer |-> recvBuffer, lines |-> lines]
       ELSE extract_lines(substr(recvBuffer, pos + 2),
                          Append(lines, substr_n(recvBuffer, 0, pos)))

PING == <<"P", "I", "N", "G">>
PONG_ == <<"P", "O", "N", "G", " ", ":">>
PRIVMSG == <<"P", "R", "I", "V", "M", "S", "G">>
JoinCommand == <<"!", "j", "o", "i", "n">>
DefaultHost == <<"t", "m", "i", ".", "t", "w", "i", "t", "c", "h", ".", "t", "v">>

\* parse_username_from_irc_line with the prefix's ':' searched for from idx
\* on (line.find(':', idx)) in place of the test line[idx] == ':'
parse_username_from_irc_line_anycolon(line) ==
    LET tagged == line /= <<>> /\ line[1] = "@"
        space == find(line, <<" ">>, 0)
        idx == IF tagged THEN space + 1 ELSE 0
        colon == find(line, <<":">>, idx)
    IN IF tagged /\ space = npos THEN <<>>
       ELSE IF colon /= npos
            THEN LET ex == find(line, <<"!">>, colon + 1)
                 IN IF ex /= npos
                    THEN substr_n(line, colon + 1, ex - (colon + 1))
                    ELSE <<>>
            ELSE <<>>

\* parse_username_from_irc_line
parse_username_from_irc_line(line) ==
    LET tagged == line /= <<>> /\ line[1] = "@"
        space == find(line, <<" ">>, 0)
        idx == IF tagged THEN space + 1 ELSE 0
    IN IF tagged /\ space = npos THEN <<>>
       ELSE IF idx < Len(line) /\ line[idx + 1] = ":"
            THEN LET ex == find(line, <<"!">>, idx + 1)
                 IN IF ex /= npos THEN substr_n(line, idx + 1, ex - (idx + 1))
                    ELSE <<>>
            ELSE <<>>

\* handle_irc_line with line.rfind(':') in place of line.find(':')
handle_irc_line_body_lastcolon(line, open) ==
    LET colons == {i \in 0..(Len(line) - 1) : line[i + 1] = ":"}
        colon == IF colons = {} THEN npos
                 ELSE CHOOSE i \in colons : \A j \in colons : j <= i
        payload == IF colon /= npos THEN substr(line, colon + 1)
                   ELSE DefaultHost
        priv == find(line, PRIVMSG, 0)
        username == parse_username_from_irc_line(line)
        colonAfterPriv == find(line, <<" ", ":">>, priv)
        lower == to_lower(substr(line, colonAfterPriv + 2))
    IN IF line = <<>> THEN [sent |-> <<>>, add |-> <<>>]
       ELSE IF starts_with(line, PING)
            THEN [sent |-> <<PONG_ \o payload>>, add |-> <<>>]
            ELSE IF priv = npos \/ colonAfterPriv = npos
                 THEN [sent |-> <<>>, add |-> <<>>]
                 ELSE [sent |-> <<>>,
                       add |-> IF starts_with(lower, JoinCommand) /\ open
                               THEN <<username>> ELSE <<>>]

\* handle_irc_line(line, sock, entries, entries_mutex) with join_open read
\* as open: the lines handed to send_line, and the names handed to
\* add_player_if_new
handle_irc_line_body(line, open) ==
    LET colon == find(line, <<":">>, 0)
        payload == IF colon /= npos THEN substr(line, colon + 1)
                   ELSE DefaultHost
        priv == find(line, PRIVMSG, 0)
        username == parse_username_from_irc_line(line)
        colonAfterPriv == find(line, <<" ", ":">>, priv)
        lower == to_lower(substr(line, colonAfterPriv + 2))
    IN IF line = <<>> THEN [sent |-> <<>>, add |-> <<>>]
       ELSE IF starts_with(line, PING)
            THEN [sent |-> <<PONG_ \o payload>>, add |-> <<>>]
            ELSE IF priv = npos \/ colonAfterPriv = npos
                 THEN [sent |-> <<>>, add |-> <<>>]
                 ELSE [sent |-> <<>>,
                       add |-> IF starts_with(lower, JoinCommand) /\ open
                               THEN <<username>> ELSE <<>>]

\* ------------------------------------------------ functions on their own
\* FnSpec applies single functions of main.cpp to inputs drawn in FnInit;
\* the rest of the program stands still.
\* longest sequence of add_player_if_new calls
MaxAdds == 4
\* the names the calls are made with
AddNames == {"", "alice", "bob"}

RECURSIVE SeqsUpTo(_, _)
SeqsUpTo(S, n) ==
    IF n = 0 THEN {<<>>}
    ELSE LET shorter == SeqsUpTo(S, n - 1)
         IN shorter \cup {Append(q, x) : q \in shorter, x \in S}

\* calls of add_player_if_new still to make (todo) and made (done) on a
\* registry that starts empty, with the static idx of random_color anywhere
AddInputs ==
    {[kind |-> "adds", todo |-> q, done |-> <<>>, entries |-> <<>>, idx |-> i] :
        q \in SeqsUpTo(AddNames, MaxAdds) \ {<<>>}, i \in 0..(PaletteSize - 1)}

\* most entries on the wheel of a frame under test
MaxSlices == 5
\* spinSpeed's values and a spin about to stop
FnSpeeds == SpinSpeeds \cup {1}

\* a registry of n <= 1 entries: user a
Wheel1(n) == [i \in 1..n |-> [name |-> <<"a">>, color |-> 0]]

\* n entries p1 .. pn, coloured as random_color colours them from idx 0
Wheel(n) == [i \in 1..n |-> [name |-> <<"p", i>>, color |-> (i - 1) % PaletteSize]]

\* a spin under way at any angle with 1 .. MaxSlices entries; start keeps
\* the angle and the velocity it began with
SpinInputs ==
    {[kind |-> "spin",
      start |-> [current_angle |-> angle, angular_velocity |-> v],
      app |-> [AppState0 EXCEPT !.entries = Wheel(n),
                                !.current_angle = angle,
                                !.angular_velocity = v,
                                !.spin_friction = f,
                                !.spinning = TRUE]] :
        angle \in 0..(TWO_PI - 1), v \in FnSpeeds, f \in SpinFrictions,
        n \in 1..MaxSlices}

\* received lines: a start, a middle and an end, each from a few texts
LineStarts ==
    {<<>>,
     <<"P", "I", "N", "G">>,
     <<"P", "I", "N", "G", " ">>,
     <<"P", "I", "N">>,
     <<" ", "P", "I", "N", "G">>,
     <<"p", "i", "n", "g">>,
     <<":", "a", "!", "a", "@", "a", " ">>,
     <<"x", ":", "a", "!", "a", " ">>,
     <<"@", "t", " ", ":", "b", "!", "b", " ">>,
     <<"@", "t">>}
LineMiddles ==
    {<<>>,
     <<":", "t">>,
     <<":">>,
     <<"t">>,
     <<":", "t", ":", "u">>,
     <<"P", "R", "I", "V", "M", "S", "G", " ", "#", "c">>}
LineEnds ==
    {<<>>,
     <<" ", "P", "R", "I", "V", "M", "S", "G", " ", "#", "c", " ", ":", "!", "j", "o", "i", "n">>,
     <<" ", ":", "!", "j", "o", "i", "n">>,
     <<" ", ":", "!", "J", "O", "I", "N", "e", "d">>,
     <<" ", ":", "h", "i">>,
     <<" ", "P", "R", "I", "V", "M", "S", "G", " ", "#", "c", " ", ":", "h", "i", " ", "!", "j", "o", "i", "n">>}

\* one call of handle_irc_line: the line, the gate, and the registry (empty,
\* or holding a) with the static idx of random_color
LineInputs ==
    {[kind |-> "line", line |-> s \o m \o e, join_open |-> open,
      handled |-> FALSE, sent |-> <<>>,
      entries |-> Wheel1(n), idx |-> n] :
        s \in LineStarts, m \in LineMiddles, e \in LineEnds,
        open \in BOOLEAN, n \in 0..1}

\* most successful appends of a run of rounds
MaxAppends == 9
\* the host's nickname in the rounds: p0; those who join are p1, p2, ...
RoundHost == <<"p", 0>>

\* a process after the host was seeded: the registry and the cursor, the
\* number of successful appends so far and the colour of the latest, the
\* host entry's colour now and as the previous seed gave it (-1: there was
\* none), and how many others had joined between the two seeds
RoundInputs ==
    {[kind |-> "rounds",
      entries |-> add_player_if_new(RoundHost, <<>>, 0).entries,
      idx |-> add_player_if_new(RoundHost, <<>>, 0).idx,
      appended |-> 1,
      last_color |-> add_player_if_new(RoundHost, <<>>, 0).entries[1].color,
      host_color |-> add_player_if_new(RoundHost, <<>>, 0).entries[1].color,
      prev_host_color |-> -1,
      between |-> 0]}

\* longest byte stream received in the framing runs
MaxStream == 5
\* the bytes of those streams: a letter, the two terminator characters and
\* the zero byte
StreamBytes == {"a", "\r", "\n", NUL}

\* the receive loop before its first recv: the bytes the peer still has to
\* deliver (stream), those delivered (received), recvBuffer, and the lines
\* handed to handle_irc_line
FrameInputs ==
    {[kind |-> "frames", stream |-> s, received |-> <<>>,
      recvBuffer |-> <<>>, lines |-> <<>>] :
        s \in SeqsUpTo(StreamBytes, MaxStream) \ {<<>>}}

\* ------------------------------------------------ entries_mutex on its own
\* What a function does with the registry and its mutex, in the order of
\* its statements: "lock" and "unlock" are the construction and the end of
\* the scope of a std::lock_guard on entries_mutex, "read" and "write" an
\* access to the entries vector, "send" and "recv" a call of send or recv on
\* the socket, "sim" the physics and drawing of a frame (they work on
\* entriesCopy).
\* add_player_if_new: find_if, and push_back when the name was not found
add_player_if_new_steps ==
    {<<"lock", "read", "unlock">>, <<"lock", "read", "write", "unlock">>}
\* the re-add of the host after a reset, when cfg.nick is not empty
host_readd_steps == add_player_if_new_steps \cup {<<>>}
\* handle_spin_or_reset with the host re-added inside the scope of its lock
handle_spin_or_reset_steps_nested ==
    {<<"lock", "read", "unlock">>}
        \cup {<<"lock", "write">> \o a \o <<"unlock">> : a \in host_readd_steps}

\* handle_spin_or_reset: entries.size() in the spin branch, entries.clear()
\* in the reset branch, the host after the scope has ended
handle_spin_or_reset_steps ==
    {<<"lock", "read", "unlock">>}
        \cup {<<"lock", "write", "unlock">> \o a : a \in host_readd_steps}
\* frame: the snapshot, handle_spin_or_reset when a hold completes, then
\* physics and drawing
frame_steps ==
    {<<"lock", "read", "unlock">> \o h \o <<"sim">> :
        h \in {<<>>} \cup handle_spin_or_reset_steps}
\* wheel_join: with the gate closed app.entries.empty() is evaluated before
\* any lock is taken
wheel_join_steps ==
    add_player_if_new_steps
        \cup {<<"read">> \o a : a \in host_readd_steps}
wheel_reset_steps ==
    {<<"lock", "write", "unlock">> \o a : a \in host_readd_steps}
wheel_spin_steps == {<<"lock", "read", "unlock">>}
\* twitch_chat_thread: the login sends; a recv and what handle_irc_line does
\* with a line of it (nothing, a PONG, add_player_if_new)
chat_steps ==
    {<<"send">>}
        \cup {<<"recv">> \o x :
                 x \in {<<>>, <<"send">>} \cup add_player_if_new_steps}

LockThreads == {"tick", "chat"}
\* what a thread of a build may do next
ThreadOps(b, t) ==
    IF t = "chat" THEN (IF b = "native" THEN chat_steps ELSE {})
    ELSE frame_steps \cup handle_spin_or_reset_steps
            \cup (IF b = "emscripten"
                  THEN wheel_join_steps \cup wheel_reset_steps
                          \cup wheel_spin_steps
                  ELSE {})

\* both threads between two operations, the mutex free; last is the latest
\* step taken and whether its thread held the mutex when taking it
LockInputs ==
    {[kind |-> "locks", build |-> b, holder |-> "none",
      todo |-> [t \in LockThreads |-> <<>>],
      last |-> [thread |-> "none", step |-> "none", held |-> FALSE]] :
        b \in Builds}

\* nicks and channels is_stream_allowed is asked about
AllowNames ==
    {<<>>,
     <<"#">>,
     <<"c", "b", "f", "0", "1">>,
     <<"C", "B", "F", "0", "1">>,
     <<"C", "b", "f", "0", "1">>,
     <<"#", "c", "b", "f", "0", "1">>,
     <<"#", "C", "B", "F", "0", "1">>,
     <<"#", "#", "c", "b", "f", "0", "1">>,
     <<"c", "b", "f", "0", "1", "#">>,
     <<"c", "b", "f", "0">>,
     <<"c", "b", "f", "0", "1", "1">>,
     <<"s", "h", "o", "e", "p", "e", "r", "t">>,
     <<"#", "S", "h", "o", "e", "p", "e", "r", "T">>,
     <<"a", "l", "i", "c", "e">>}

\* calls of is_stream_allowed(nick, channel) and what they returned
AllowInputs ==
    {[kind |-> "allow", nick |-> n, channel |-> c, results |-> <<>>] :
        n \in AllowNames, c \in AllowNames}

FnInputs ==
    AddInputs \cup SpinInputs \cup LineInputs \cup RoundInputs
        \cup AllowInputs \cup FrameInputs \cup LockInputs

MainUnchanged ==
    UNCHANGED <<build, cfg, app, palette_idx, main_pc, reseed_ret, frame_dt,
                entriesCopy, chat_pc, chat_user, chat_sent, twitchRunning,
                timer>>

FnInit ==
    /\ build = "native"
    /\ cfg = NoConfig
    /\ app = AppState0
    /\ palette_idx = 0
    /\ main_pc = "events"
    /\ reseed_ret = "events"
    /\ frame_dt = 0
    /\ entriesCopy = NoCopy
    /\ chat_pc = "off"
    /\ chat_user = ""
    /\ chat_sent = <<>>
    /\ twitchRunning = FALSE
    /\ timer = Timer0
    /\ fn \in FnInputs

\* the next call add_player_if_new(name, entries, entries_mutex)
FnAdd ==
    /\ fn.kind = "adds"
    /\ fn.todo /= <<>>
    /\ LET r == add_player_if_new(Head(fn.todo), fn.entries, fn.idx)
       IN fn' = [fn EXCEPT !.todo = Tail(fn.todo),
                           !.done = Append(fn.done, Head(fn.todo)),
                           !.entries = r.entries,
                           !.idx = r.idx]
    /\ MainUnchanged

\* frame(cfg, dt) on a wheel no handler touches: the snapshot is the
\* registry, no hold is active
FnFrame(dt) ==
    /\ fn.kind = "spin"
    /\ fn' = [fn EXCEPT !.app = frame_physics(fn.app, Len(fn.app.entries),
                                              fn.app.entries, dt)]
    /\ MainUnchanged

\* handle_irc_line(line, sock, entries, entries_mutex): send_line and
\* add_player_if_new are called as handle_irc_line_body says
FnHandleLine ==
    /\ fn.kind = "line"
    /\ ~fn.handled
    /\ LET h == handle_irc_line_body(fn.line, fn.join_open)
           r == IF h.add = <<>>
                THEN [entries |-> fn.entries, idx |-> fn.idx]
                ELSE add_player_if_new(h.add[1], fn.entries, fn.idx)
       IN fn' = [fn EXCEPT !.handled = TRUE,
                           !.sent = h.sent,
                           !.entries = r.entries,
                           !.idx = r.idx]
    /\ MainUnchanged

\* the names tried in a round: none, the host again, somebody new
RoundNames(entries) == <<"", RoundHost, <<"p", Len(entries)>>>>

\* add_player_if_new in a round
FnJoin(which) ==
    /\ fn.kind = "rounds"
    /\ fn.appended < MaxAppends
    /\ LET r == add_player_if_new(RoundNames(fn.entries)[which], fn.entries,
                                  fn.idx)
           grew == Len(r.entries) > Len(fn.entries)
       IN fn' = [fn EXCEPT !.entries = r.entries,
                           !.idx = r.idx,
                           !.appended = IF grew THEN @ + 1 ELSE @,
                           !.last_color =
                               IF grew THEN r.entries[Len(r.entries)].color
                               ELSE @]
    /\ MainUnchanged

\* the registry part of a reset: app.entries.clear(), then
\* add_player_if_new(cfg.nick, ...); a reset needs a winner, a winner a
\* spin, a spin two entries
FnReset ==
    /\ fn.kind = "rounds"
    /\ fn.appended < MaxAppends
    /\ Len(fn.entries) >= 2
    /\ LET r == add_player_if_new(RoundHost, <<>>, fn.idx)
       IN fn' = [fn EXCEPT !.entries = r.entries,
                           !.idx = r.idx,
                           !.appended = @ + 1,
                           !.last_color = r.entries[1].color,
                           !.host_color = r.entries[1].color,
                           !.prev_host_color = fn.host_color,
                           !.between = Len(fn.entries) - 1]
    /\ MainUnchanged

\* is_stream_allowed(nick, channel), twice over
FnAllowed ==
    /\ fn.kind = "allow"
    /\ Len(fn.results) < 2
    /\ fn' = [fn EXCEPT !.results =
                  Append(@, is_stream_allowed(fn.nick, fn.channel))]
    /\ MainUnchanged

\* one pass of the receive loop with recv returning bytes > 0
FnRecv(bytes) ==
    /\ fn.kind = "frames"
    /\ bytes \in 1..Len(fn.stream)
    /\ LET buffer == SubSeq(fn.stream, 1, bytes)
           r == extract_lines(append_c_str(fn.recvBuffer, buffer), fn.lines)
       IN fn' = [fn EXCEPT !.stream = substr(fn.stream, bytes),
                           !.received = @ \o buffer,
                           !.recvBuffer = r.recvBuffer,
                           !.lines = r.lines]
    /\ MainUnchanged

\* thread t enters one of its functions
FnBegin(t) ==
    /\ fn.kind = "locks"
    /\ fn.todo[t] = <<>>
    /\ \E op \in ThreadOps(fn.build, t) :
          fn' = [fn EXCEPT !.todo[t] = op]
    /\ MainUnchanged

\* thread t takes the next step of its function; the constructor of
\* lock_guard returns when the mutex is free
FnStep(t) ==
    /\ fn.kind = "locks"
    /\ fn.todo[t] /= <<>>
    /\ LET step == Head(fn.todo[t])
       IN /\ step = "lock" => fn.holder = "none"
          /\ fn' = [fn EXCEPT !.todo[t] = Tail(@),
                              !.holder = IF step = "lock" THEN t
                                         ELSE IF step = "unlock" THEN "none"
                                         ELSE @,
                              !.last = [thread |-> t, step |-> step,
                                        held |-> fn.holder = t]]
    /\ MainUnchanged

FnNext ==
    \/ FnAdd
    \/ \E t \in LockThreads : FnBegin(t) \/ FnStep(t)
    \/ \E bytes \in 1..MaxStream : FnRecv(bytes)
    \/ FnAllowed
    \/ \E which \in 1..3 : FnJoin(which)
    \/ FnReset
    \/ FnHandleLine
    \/ \E dt \in Dts : FnFrame(dt)

FnSpec == FnInit /\ [][FnNext]_vars

\* The two threads and the mutex alone.  A thread inside a function goes
\* on: no step but the constructor of lock_guard can block, and a thread
\* that finds the mutex free again and again gets it at some time.
LockInit == FnInit /\ fn \in LockInputs
LockNext == \E t \in LockThreads : FnBegin(t) \/ FnStep(t)
LockSpec ==
    /\ LockInit
    /\ [][LockNext]_vars
    /\ SF_vars(FnStep("tick"))
    /\ SF_vars(FnStep("chat"))

\* ======================================================== properties
TypeOK ==
    /\ build \in Builds
    /\ main_pc \in {"events", "reseed", "join", "exited"}
    /\ chat_pc \in {"off", "connect", "login", "recv", "add", "done"}
    /\ palette_idx \in 0..(PaletteSize - 1)
    /\ app.current_angle \in 0..(TWO_PI - 1)
    /\ app.angular_velocity >= 0


\* ------------------------------------------------------------------- C1
\* C1: in every reachable state, whatever the interleaving of the tick thread
\* and the chat thread, no two entries of the registry have the same name;
\* names are compared exactly, so "alice" and "Alice" are two entries.
C1_Uniqueness ==
    \A i, j \in 1..Len(app.entries) :
        i /= j => app.entries[i].name /= app.entries[j].name

\* both spellings are in the registry, the second appended by the chat thread
C1_Witness ==
    /\ Len(app.entries) = 2
    /\ Names(app.entries) = {"alice", "Alice"}

\* ------------------------------------------------------------------- C2
\* C2: a line whose text starts with the join command and whose sender was
\* extracted: handled with the gate open, it leaves the chat thread committed
\* to the append and the sender is in the registry once the append is done
\* (appended at the end if absent, the registry unchanged if present);
\* handled with the gate closed, it is dropped: the registry and the chat
\* thread are unchanged.
C2_JoinGated ==
    [][ /\ \A line \in Lines :
              (line.join /\ handle_irc_line(line)) =>
                  IF app.join_open
                  THEN chat_pc' = "add" /\ chat_user' = line.sender
                  ELSE UNCHANGED <<app, palette_idx, chat_pc, chat_user>>
        /\ ChatAdd =>
              /\ chat_user /= "" => chat_user \in Names(app'.entries)
              /\ chat_user \in Names(app.entries) => app'.entries = app.entries
              /\ (chat_user /= "" /\ chat_user \notin Names(app.entries)) =>
                    /\ Len(app'.entries) = Len(app.entries) + 1
                    /\ SubSeq(app'.entries, 1, Len(app.entries)) = app.entries
                    /\ app'.entries[Len(app'.entries)].name = chat_user
      ]_vars

\* the chat thread has appended a sender the tick thread never adds
C2_Witness ==
    /\ build = "native"
    /\ chat_pc = "recv"
    /\ "Alice" \in Names(app.entries)

\* ------------------------------------------------------------------- C3
\* the three conditions of a spin start
SpinPermitted(a) == Len(a.entries) >= 2 /\ ~a.spinning /\ ~a.join_open

\* a is the state a spin start leaves behind when it began in state b
SpinStarted(b, a) ==
    /\ a.spinning
    /\ a.angular_velocity \in SpinSpeeds
    /\ a.spin_friction \in SpinFrictions
    /\ a.winner_index = -1
    /\ a.winner_flash_remaining = 0
    /\ a.winner_flash_elapsed = 0
    /\ a = [b EXCEPT !.spinning = a.spinning,
                     !.angular_velocity = a.angular_velocity,
                     !.spin_friction = a.spin_friction,
                     !.winner_index = a.winner_index,
                     !.winner_flash_remaining = a.winner_flash_remaining,
                     !.winner_flash_elapsed = a.winner_flash_elapsed]

\* C3: in every reachable state in which the tick thread takes events, a spin
\* trigger (space or left click with no winner showing, or wheel_spin) starts
\* a spin when the registry has at least two entries, no spin is in progress
\* and the gate is closed, and otherwise changes nothing of the round state
\* and the registry.
C3_SpinTrigger ==
    main_pc = "events" =>
        \A v \in SpinSpeeds, f \in SpinFrictions :
            /\ ~winnerShowing(app) =>
                 \A source \in {SourceSpace, SourceMouse} :
                    LET r == key_or_click_down(build, app, source, v, f)
                    IN /\ ~r.didReset
                       /\ IF SpinPermitted(app) THEN SpinStarted(app, r.app)
                          ELSE r.app = app
            /\ build = "emscripten" =>
                 LET a == wheel_spin_body(app, v, f)
                 IN IF SpinPermitted(app) THEN SpinStarted(app, a)
                    ELSE a = app

\* a spin has just been started
C3_Witness ==
    /\ main_pc = "events"
    /\ app.spinning
    /\ app.angular_velocity \in SpinSpeeds
    /\ app.winner_index = -1
    /\ Len(app.entries) >= 2
    /\ ~app.join_open


\* ------------------------------------------------------------------- C4
\* C4: under repeated frames with dt > 0, a spin in progress with positive
\* velocity and positive friction is followed by a state with spinning false.
C4_Termination ==
    (app.spinning /\ app.angular_velocity > 0 /\ app.spin_friction > 0)
        ~> ~app.spinning

\* a spin has run out: the velocity is 0 again and the winner is recorded
C4_Witness ==
    /\ ~app.spinning
    /\ app.angular_velocity = 0
    /\ app.winner_index >= 0
    /\ app.current_angle /= 0


\* ------------------------------------------------------------------- C5
\* a step that resets the round: a frame that completes a hold, or wheel_reset
RoundResetStep ==
    \/ wheel_reset
    \/ \E dt \in Dts : Frame(dt) /\ hold_completes(app, dt)

\* C5: the winner index is absent (-1) while a spin is in progress; the step
\* that ends the spin without resetting the round sets it to an index of the
\* registry; once set it changes only in a step that resets the round.
C5_WinnerSetOnce ==
    [][ /\ app.spinning => app.winner_index = -1
        /\ (app.spinning /\ ~app'.spinning /\ ~RoundResetStep) =>
              /\ app'.winner_index \in 0..(Len(app.entries) - 1)
              /\ app'.celebration_active
        /\ (app.winner_index >= 0 /\ app'.winner_index /= app.winner_index) =>
              RoundResetStep
      ]_vars

\* ------------------------------------------------------------------- C6
\* the names of the registry, in order
NameSeq(entries) == [i \in 1..Len(entries) |-> entries[i].name]

\* state Closed as a completed reset leaves it
ClosedAfterReset(a, nick) ==
    /\ a.winner_index = -1
    /\ ~a.celebration_active
    /\ a.celebration_time = 0
    /\ a.celebration_name = ""
    /\ a.winner_flash_remaining = 0
    /\ a.winner_flash_elapsed = 0
    /\ ~a.reset_hold_active
    /\ a.reset_hold_elapsed = 0
    /\ a.reset_hold_source = SourceNone
    /\ ~a.join_open
    /\ ~a.spinning
    /\ NameSeq(a.entries) = IF nick = "" THEN <<>> ELSE <<nick>>

\* the step that ends a frame in which a hold reached requiredHold
ResetFrameEnds ==
    \/ \E dt \in Dts : Frame(dt) /\ hold_completes(app, dt) /\ main_pc' = "events"
    \/ Reseed /\ reseed_ret = "frame"

\* C6: when the frame in which a hold started in winner display reaches
\* elapsed >= requiredHold ends, the state is Closed: winner, celebration,
\* flash and hold state are cleared, the gate is closed, and the registry
\* holds exactly the configured host, or nothing when no host is configured.
C6_ResetToClosed ==
    [][ResetFrameEnds => ClosedAfterReset(app', cfg.nick)]_vars

\* ------------------------------------------------------------------- C7
\* C7: in every reachable state in which a winner is showing, the right
\* click that toggles the gate changes nothing.
C7_ToggleIgnored ==
    (main_pc = "events" /\ winnerShowing(app)) => toggle_join(build, app) = app

\* ------------------------------------------------------------------- C8
\* b and a agree on what a spin start would change, and on the registry
NoNewSpin(b, a) ==
    /\ a.spinning = b.spinning
    /\ a.angular_velocity = b.angular_velocity
    /\ a.winner_index = b.winner_index
    /\ a.entries = b.entries

\* C8: in every reachable state in which a winner is showing, a spin trigger
\* (space, left click, wheel_spin) starts no spin: spinning, the velocity,
\* the winner index and the registry stay as they are.
C8_SpinIgnored ==
    (main_pc = "events" /\ winnerShowing(app)) =>
        \A v \in SpinSpeeds, f \in SpinFrictions :
            /\ \A source \in {SourceSpace, SourceMouse} :
                 NoNewSpin(app, key_or_click_down(build, app, source, v, f).app)
            /\ build = "emscripten" => NoNewSpin(app, wheel_spin_body(app, v, f))

\* ------------------------------------------------------------------- C9
\* C9: in every reachable state in which a winner is showing and no hold is
\* active, space or left button down starts the hold: reset_hold_active is
\* true, reset_hold_elapsed is 0 and reset_hold_source is that source.
C9_HoldStart ==
    (main_pc = "events" /\ winnerShowing(app) /\ ~app.reset_hold_active) =>
        \A v \in SpinSpeeds, f \in SpinFrictions :
            \A source \in {SourceSpace, SourceMouse} :
                LET a == key_or_click_down(build, app, source, v, f).app
                IN /\ a.reset_hold_active
                   /\ a.reset_hold_elapsed = 0
                   /\ a.reset_hold_source = source

\* ------------------------------------------------------------------ C10
\* C10: in every reachable state with a hold active, (a) a frame that finds a
\* winner showing and leaves the elapsed hold time below requiredHold keeps
\* the hold active, adds dt to the elapsed time, resets nothing and leaves a
\* winner showing; (b) the release of the source that started the hold clears
\* the three hold fields and changes nothing else (winner, gate, registry).
C10_HoldBelowThreshold ==
    (main_pc = "events" /\ app.reset_hold_active) =>
        /\ app.reset_hold_source \in {SourceSpace, SourceMouse}
        /\ \A dt \in Dts, v \in SpinSpeeds, f \in SpinFrictions :
              (winnerShowing(app) /\ app.reset_hold_elapsed + dt < RequiredHold) =>
                  LET a == frame_no_reseed(app, dt, v, f)
                  IN /\ ~frame_locked(app, dt, v, f).didReset
                     /\ a.reset_hold_active
                     /\ a.reset_hold_elapsed = app.reset_hold_elapsed + dt
                     /\ a.reset_hold_source = app.reset_hold_source
                     /\ winnerShowing(a)
                     /\ a.entries = app.entries
                     /\ a.join_open = app.join_open
        /\ hold_release(app, app.reset_hold_source) =
              [app EXCEPT !.reset_hold_active = FALSE,
                          !.reset_hold_elapsed = 0,
                          !.reset_hold_source = SourceNone]

\* a hold was started and a frame of 0.5 s has passed
C10_Witness ==
    /\ main_pc = "events"
    /\ winnerShowing(app)
    /\ app.reset_hold_active
    /\ app.reset_hold_elapsed = 1

\* ---------------------------------------------------------------------
\* C11.  Between two clears the registry keeps the order of first successful
\* insertion: after any sequence of add_player_if_new calls on an empty
\* registry, duplicates and empty names among them, the names of the
\* registry are the distinct non-empty names of the calls in the order of
\* their first occurrence.
RECURSIVE FirstOccurrences(_)
FirstOccurrences(q) ==
    IF q = <<>> THEN <<>>
    ELSE LET n == Len(q)
             before == FirstOccurrences(SubSeq(q, 1, n - 1))
         IN IF q[n] = "" \/ \E i \in 1..(n - 1) : q[i] = q[n]
            THEN before
            ELSE Append(before, q[n])

C11_InsertionOrder ==
    fn.kind = "adds" => NameSeq(fn.entries) = FirstOccurrences(fn.done)

\* alice, an empty name, bob, alice again: the registry is alice, bob
C11_Witness ==
    /\ fn.kind = "adds"
    /\ fn.done = <<"alice", "", "bob", "alice">>
    /\ NameSeq(fn.entries) = <<"alice", "bob">>

\* ---------------------------------------------------------------------
\* C12.  add_player_if_new with an empty name or with a name the registry
\* already holds changes nothing: the registry, with every entry's name and
\* color, and the palette cursor stay as they were.
C12_NoOpAdd ==
    [][(/\ fn.kind = "adds"
        /\ fn.todo /= <<>>
        /\ (Head(fn.todo) = "" \/ Head(fn.todo) \in Names(fn.entries)))
       => (fn'.entries = fn.entries /\ fn'.idx = fn.idx)]_vars

\* alice was added with the first color, then an empty name and alice again
\* were tried: one entry, and the cursor moved once
C12_Witness ==
    /\ fn.kind = "adds"
    /\ fn.done = <<"alice", "", "alice">>
    /\ fn.entries = <<[name |-> "alice", color |-> 0]>>
    /\ fn.idx = 1

\* ---------------------------------------------------------------------
\* C13.  Every right click that changes the gate from closed to open starts
\* the countdown, and every right click that changes it from open to closed
\* stops the countdown.
C13_GateStartsStops ==
    [][RightClick =>
         /\ (~app.join_open /\ app'.join_open)
                => (timer'.running /\ timer'.starts = timer.starts + 1)
         /\ (app.join_open /\ ~app'.join_open)
                => (~timer'.running /\ timer'.stops = timer.stops + 1)]_vars

\* ---------------------------------------------------------------------
\* C14.  The timer is driven by the edges of the gate as set_join_open
\* drives it: a right click that leaves the gate at its value makes no call,
\* one that changes it makes the one call of set_join_open, so that two
\* right clicks in a row from Closed make exactly one start and one stop.
C14_EdgeTriggered ==
    [][RightClick =>
         timer' = set_join_open(app, timer, app'.join_open).timer]_vars

\* ---------------------------------------------------------------------
\* C16.  Whatever angle in [0, 2*pi) a spin starts at and whatever frames
\* with dt >= 0 follow, current_angle is in [0, 2*pi) after each of them.
C16_AngleInRange ==
    fn.kind = "spin" =>
        (fn.app.current_angle >= 0 /\ fn.app.current_angle < TWO_PI)

\* one frame of dt = 0.5 s took the wheel from 7/4 pi at 8 units past 2*pi
C16_Witness ==
    /\ fn.kind = "spin"
    /\ fn.start = [current_angle |-> 7, angular_velocity |-> 8]
    /\ fn.app.spinning
    /\ fn.app.angular_velocity = 7
    /\ fn.app.current_angle = 7

\* ---------------------------------------------------------------------
\* C18.  pointer_slice_index(angle, n) is floor(normalize(POINTER_ANGLE -
\* angle) / (2*pi / n)) clamped to 0 .. n-1, a function of its two arguments
\* only; for n >= 1 it is in 0 .. n-1; and the winner_index a stopping frame
\* records is this function of the final angle and of the length of the
\* frame's snapshot.
\* x brought into [0, 2*pi)
Normalize(x) == x % TWO_PI

\* the slice k with k * (2*pi / n) <= Normalize(POINTER_ANGLE - angle)
\* < (k + 1) * (2*pi / n), clamped to n - 1
ResolveWinnerIndex(angle, n) ==
    LET x == Normalize(POINTER_ANGLE - angle)
        k == CHOOSE k \in 0..n : k * TWO_PI <= x * n /\ x * n < (k + 1) * TWO_PI
    IN Min(k, n - 1)

C18_WinnerIndex ==
    fn.kind = "spin" =>
        LET n == Len(fn.app.entries)
            angle == fn.app.current_angle
        IN /\ pointer_slice_index(angle, n) = ResolveWinnerIndex(angle, n)
           /\ pointer_slice_index(angle, n) \in 0..(n - 1)
           /\ ~fn.app.spinning => fn.app.winner_index = ResolveWinnerIndex(angle, n)

\* a wheel of three stopped at pi/4: the pointer is 5/4 pi past the wheel's
\* zero, which is in the second slice
C18_Witness ==
    /\ fn.kind = "spin"
    /\ ~fn.app.spinning
    /\ Len(fn.app.entries) = 3
    /\ fn.app.current_angle = 1
    /\ fn.app.winner_index = 1
    /\ fn.app.celebration_name = fn.app.entries[2].name

\* ---------------------------------------------------------------------
\* C17.  angular_velocity is negative in no reachable state, and a frame
\* whose friction would bring the velocity of a spin to 0 or below leaves
\* it at exactly 0 with the spin ended.
C17_VelocityClamped ==
    /\ app.angular_velocity >= 0
    /\ (main_pc = "events" /\ app.spinning) =>
         \A dt \in Dts, v \in SpinSpeeds, f \in SpinFrictions :
            app.angular_velocity - app.spin_friction * dt <= 0 =>
               LET r == frame_no_reseed(app, dt, v, f)
               IN r.angular_velocity = 0 /\ ~r.spinning

\* a spin down to one unit of velocity, which a frame of MaxDt overshoots
C17_Witness ==
    /\ main_pc = "events"
    /\ app.spinning
    /\ app.angular_velocity = 1
    /\ app.angular_velocity - app.spin_friction * MaxDt < 0
    /\ frame_no_reseed(app, MaxDt, 7, 1).angular_velocity = 0

\* ---------------------------------------------------------------------
\* the frame of dt started in state a ends a spin by running out of velocity
PhysicsStops(a, dt) ==
    /\ a.spinning
    /\ Len(a.entries) > 0
    /\ ~hold_completes(a, dt)
    /\ a.angular_velocity - a.spin_friction * dt <= 0

Max0(x) == IF x < 0 THEN 0 ELSE x

\* a frame that neither stops a spin nor resets counts the flash down by dt,
\* not below 0
FlashCountsDown(a, dt, r) ==
    (~PhysicsStops(a, dt) /\ ~hold_completes(a, dt)
        /\ a.winner_flash_remaining > 0)
    => r.winner_flash_remaining = Max0(a.winner_flash_remaining - dt)

\* C19.  As the claim states it: the frame in which the physics brings a spin
\* to velocity 0 ends with winner_index set, the celebration timer at 0 and
\* the flash timer at 2 s; after that, while the flash timer is above 0,
\* each frame takes dt off it, and it is never negative.
C19_ArmedAtStop ==
    /\ app.winner_flash_remaining >= 0
    /\ main_pc = "events" =>
         \A dt \in Dts, v \in SpinSpeeds, f \in SpinFrictions :
            LET r == frame_no_reseed(app, dt, v, f)
            IN /\ PhysicsStops(app, dt) =>
                    /\ r.winner_index \in 0..(Len(app.entries) - 1)
                    /\ r.celebration_active
                    /\ r.celebration_time = 0
                    /\ r.winner_flash_remaining = FlashSeconds
               /\ FlashCountsDown(app, dt, r)

\* C19, amended.  The frame in which the physics brings a spin to velocity 0
\* sets winner_index, the celebration timer to 0 and the flash timer to 2 s,
\* and the same frame's timer blocks already run on them: the frame ends
\* with winner_index set, the celebration timer at dt and the flash timer at
\* max(0, 2 s - dt).  After that, while the flash timer is above 0, each
\* frame takes dt off it, stopping at 0, and it is never negative.
C19_ArmedAndTicked ==
    /\ app.winner_flash_remaining >= 0
    /\ main_pc = "events" =>
         \A dt \in Dts, v \in SpinSpeeds, f \in SpinFrictions :
            LET r == frame_no_reseed(app, dt, v, f)
            IN /\ PhysicsStops(app, dt) =>
                    /\ r.winner_index \in 0..(Len(app.entries) - 1)
                    /\ r.celebration_active
                    /\ r.celebration_time = Min(dt, MaxCelebrationTime)
                    /\ r.winner_flash_remaining = Max0(FlashSeconds - dt)
               /\ FlashCountsDown(app, dt, r)

\* the state a stopping frame of dt = 0.5 s leaves: flash at 1.5 s, celebration
\* at 0.5 s
C19_Witness ==
    /\ main_pc = "events"
    /\ ~app.spinning
    /\ app.winner_index >= 0
    /\ app.celebration_time = 1
    /\ app.winner_flash_remaining = FlashSeconds - 1
    /\ app.winner_flash_elapsed = 1

\* ---------------------------------------------------------------------
\* C15.  A handled line that begins with PING makes exactly one call of
\* send_line, with "PONG :" and the text after the line's first ':' (or
\* tmi.twitch.tv when the line has no ':'), and is handled as nothing else:
\* the registry and the palette cursor are as before, also when the line
\* holds PRIVMSG and !join and the gate is open.
\* (LineInputs start a registry of n entries with the cursor at n.)
\* the text after the first ':' of s, found without find and substr
AfterFirstColon(s) ==
    IF \A i \in 1..Len(s) : s[i] /= ":" THEN DefaultHost
    ELSE LET c == CHOOSE i \in 1..Len(s) :
                     s[i] = ":" /\ \A j \in 1..(i - 1) : s[j] /= ":"
         IN [k \in 1..(Len(s) - c) |-> s[c + k]]

BeginsWithPing(s) ==
    Len(s) >= 4 /\ s[1] = "P" /\ s[2] = "I" /\ s[3] = "N" /\ s[4] = "G"

C15_Keepalive ==
    (fn.kind = "line" /\ fn.handled /\ BeginsWithPing(fn.line)) =>
        /\ fn.sent = <<PONG_ \o AfterFirstColon(fn.line)>>
        /\ fn.idx \in 0..1
        /\ fn.entries = Wheel1(fn.idx)

\* "PING :t PRIVMSG #c :!join" handled with the gate open and an empty
\* registry: "PONG :t PRIVMSG #c :!join" went out, nobody joined
C15_Witness ==
    /\ fn.kind = "line"
    /\ fn.handled
    /\ fn.join_open
    /\ fn.line = PING \o <<" ", ":", "t", " ">> \o PRIVMSG
                   \o <<" ", "#", "c", " ", ":">> \o JoinCommand
    /\ fn.sent = <<PONG_ \o <<"t", " ">> \o PRIVMSG
                    \o <<" ", "#", "c", " ", ":">> \o JoinCommand>>
    /\ fn.entries = <<>>

\* ---------------------------------------------------------------------
\* C20.  With cfg.oauth, cfg.nick or cfg.channel empty (the native build
\* reads them at start) the chat thread never connects, sends no line and
\* handles none, and the rest runs: the tick thread is always ready for
\* the next event and frame, a right click still moves the gate, and a
\* non-empty cfg.nick is in the registry.
C20_ChatDisabled ==
    (build = "native" /\ (cfg.oauth = "" \/ cfg.nick = "" \/ cfg.channel = ""))
    => /\ chat_pc = "off"
       /\ chat_sent = <<>>
       /\ chat_user = ""
       /\ main_pc = "events"
       /\ toggle_join(build, app).join_open = ~app.join_open
       /\ cfg.nick /= "" => NameSeq(app.entries) = <<cfg.nick>>

\* no channel configured: the host alice is on the wheel, a right click has
\* opened the gate, and the chat thread is not there
C20_Witness ==
    /\ build = "native"
    /\ cfg.channel = ""
    /\ cfg.nick = "alice"
    /\ app.join_open
    /\ NameSeq(app.entries) = <<"alice">>
    /\ chat_pc = "off"
    /\ chat_sent = <<>>

\* ---------------------------------------------------------------------
\* C21.  The login sends PASS, NICK and JOIN, in this order and nothing
\* else; when a send fails no further login line is sent and the thread
\* returns; the receive loop is entered only with all three lines sent, so a
\* failed login never reads or handles a line.
IsPrefix(p, q) == Len(p) <= Len(q) /\ SubSeq(q, 1, Len(p)) = p

C21_Handshake ==
    [][/\ IsPrefix(chat_sent', LoginLines(cfg))
       /\ chat_pc' \in {"recv", "add"} => chat_sent' = LoginLines(cfg)
       /\ \A ok \in BOOLEAN : ChatLogin(ok) =>
             IF ok
             THEN chat_sent' = Append(chat_sent, LoginLines(cfg)[Len(chat_sent) + 1])
             ELSE chat_sent' = chat_sent /\ chat_pc' = "done"
       /\ chat_pc = "done" => (chat_pc' = "done" /\ chat_sent' = chat_sent)
      ]_vars

\* PASS went out, the send of NICK failed: the thread has returned
C21_Witness ==
    /\ chat_pc = "done"
    /\ chat_sent = <<[cmd |-> "PASS", arg |-> "oauth:tok"]>>

\* ---------------------------------------------------------------------
\* C22.  recv returning 0 or failing with another error than the timeout
\* ends the receive loop for good: the thread has returned, it connects and
\* sends no more, handles no line and leaves the registry to the tick
\* thread (whose changes are the clear and the host re-add).  A timeout
\* keeps the thread in the loop.
C22_Disconnected ==
    [][/\ \A outcome \in {"error", "closed"} :
             ChatRecv(outcome) => chat_pc' = "done"
       /\ (chat_pc = "recv" /\ twitchRunning) =>
             recv_failed("timeout", twitchRunning) = "recv"
       /\ chat_pc = "done" =>
             /\ chat_pc' = "done"
             /\ chat_user' = chat_user
             /\ chat_sent' = chat_sent
             /\ app'.entries /= app.entries =>
                   (app'.entries = <<>> \/ (Reseed /\ main_pc = "reseed"))
      ]_vars

\* Alice joined, then the connection was lost: the thread has returned with
\* the registry as it left it
C22_Witness ==
    /\ chat_pc = "done"
    /\ chat_sent = LoginLines(cfg)
    /\ NameSeq(app.entries) = <<"alice", "Alice">>
    /\ ~app.join_open

\* ---------------------------------------------------------------------
\* C23.  Once main has cleared twitchRunning, the chat thread does not
\* start another recv: a recv it is in returns (data, timeout or error), at
\* most that one, and the thread returns, so that main's join completes.
\* Clearing the flag does not itself move the chat thread: a recv in
\* progress is left to return.
C23_Shutdown ==
    /\ [][/\ ~twitchRunning => chat_pc' /= "recv"
          /\ Quit => (chat_pc' = chat_pc /\ chat_user' = chat_user)]_vars
    /\ (main_pc = "join") ~> (main_pc = "exited" /\ chat_pc = "done")

\* the flag was cleared with the chat thread logged in; the thread has
\* returned and the join is over
C23_Witness ==
    /\ main_pc = "exited"
    /\ ~twitchRunning
    /\ chat_pc = "done"
    /\ chat_sent = LoginLines(cfg)

\* ---------------------------------------------------------------------
\* C24.  The clear of a reset empties the registry and leaves the cursor of
\* random_color alone: the cursor moves by one with each successful append
\* and with nothing else, so the k-th successful append of the process,
\* counted over all resets, gets palette colour (k - 1) mod PaletteSize.
C24_PaletteCursor ==
    fn.kind = "rounds" =>
        /\ fn.idx = fn.appended % PaletteSize
        /\ fn.last_color = (fn.appended - 1) % PaletteSize
        /\ \A i \in 1..Len(fn.entries) :
              fn.entries[i].color
                  = (fn.appended - Len(fn.entries) + i - 1) % PaletteSize

\* the sixth append of the process is the second joiner after the first
\* reset: colour 5 mod 4
C24_Witness ==
    /\ fn.kind = "rounds"
    /\ fn.appended = 6
    /\ fn.prev_host_color = 0
    /\ Len(fn.entries) = 2
    /\ fn.entries[2].color = 1
    /\ fn.idx = 2

\* ---------------------------------------------------------------------
\* C30.  As the claim states it: the host entry a reset re-adds has another
\* colour than the host entry of the seed before it (the previous reset's,
\* or the initial one), however many others joined in between.
C30_HostColorDiffers ==
    (fn.kind = "rounds" /\ fn.prev_host_color >= 0) =>
        fn.host_color /= fn.prev_host_color

\* C30, amended.  The host entry a reset re-adds has the colour of the
\* previous host seed advanced by one plus the number of others that joined
\* in between, modulo PaletteSize: another colour unless that number plus
\* one is a multiple of PaletteSize.
C30_HostColorAdvances ==
    (fn.kind = "rounds" /\ fn.prev_host_color >= 0) =>
        /\ fn.host_color = (fn.prev_host_color + 1 + fn.between) % PaletteSize
        /\ (fn.host_color /= fn.prev_host_color)
              <=> ((fn.between + 1) % PaletteSize /= 0)

\* one other joined before the reset: the host went from colour 0 to 2
C30_Witness ==
    /\ fn.kind = "rounds"
    /\ fn.prev_host_color = 0
    /\ fn.between = 1
    /\ fn.host_color = 2
    /\ Len(fn.entries) = 1

\* ---------------------------------------------------------------------
\* C25.  is_stream_allowed(nick, channel) answers from its two arguments
\* alone, the same at every call: true exactly when the lower-cased nick, or
\* the lower-cased channel without one leading '#', is an entry of the
\* allow-list.
LowerCased(s) == [i \in 1..Len(s) |-> tolower(s[i])]
OneHashStripped(room) ==
    IF Len(room) >= 1 /\ Head(room) = "#" THEN Tail(room) ELSE room
C25_Allowed ==
    fn.kind = "allow" =>
        \A k \in 1..Len(fn.results) :
            fn.results[k]
                <=> \/ LowerCased(fn.nick) \in ALLOWED
                    \/ LowerCased(OneHashStripped(fn.channel)) \in ALLOWED

\* an unknown nick on channel #CBF01 is allowed, both times
C25_Witness ==
    /\ fn.kind = "allow"
    /\ fn.nick = <<"a", "l", "i", "c", "e">>
    /\ fn.channel = <<"#", "C", "B", "F", "0", "1">>
    /\ fn.results = <<TRUE, TRUE>>

\* ---------------------------------------------------------------------
\* C26.  In every reachable state in which the wheel is spinning and no
\* winner is showing, the gate is closed and none of the right click, space
\* or left button down, wheel_spin, and space or left button up changes the
\* gate, the round state or the registry.
Spinning(a) == a.spinning /\ ~winnerShowing(a)
C26_SpinningIgnores ==
    (main_pc = "events" /\ Spinning(app)) =>
        /\ ~app.join_open
        /\ toggle_join(build, app) = app
        /\ \A source \in {SourceSpace, SourceMouse} :
              /\ hold_release(app, source) = app
              /\ \A v \in SpinSpeeds, f \in SpinFrictions :
                    key_or_click_down(build, app, source, v, f).app = app
        /\ build = "emscripten" =>
              \A v \in SpinSpeeds, f \in SpinFrictions :
                  wheel_spin_body(app, v, f) = app

\* ---------------------------------------------------------------------
\* C27.  However the received bytes were split over the reads, the lines
\* handed to handle_irc_line are the received bytes split at each "\r\n",
\* in order and once each, and recvBuffer holds the unterminated rest.
RECURSIVE SplitAtTerminators(_)
SplitAtTerminators(s) ==
    LET p == find(s, CRLF, 0)
    IN IF p = npos THEN [lines |-> <<>>, tail |-> s]
       ELSE LET rest == SplitAtTerminators(substr(s, p + 2))
            IN [lines |-> <<substr_n(s, 0, p)>> \o rest.lines,
                tail |-> rest.tail]
C27_Framing ==
    fn.kind = "frames" =>
        /\ fn.lines = SplitAtTerminators(fn.received).lines
        /\ fn.recvBuffer = SplitAtTerminators(fn.received).tail

\* ---------------------------------------------------------------------
\* C28.  What the claim says of a line, written without find and substr.
\* pat stands in s at the 0-based position i
Occurs(s, pat, i) ==
    i + Len(pat) <= Len(s) /\ \A k \in 1..Len(pat) : s[i + k] = pat[k]
\* the first position from `from` on at which pat stands in s
First(s, pat, from) ==
    IF \E i \in from..Len(s) : Occurs(s, pat, i)
    THEN CHOOSE i \in from..Len(s) :
             Occurs(s, pat, i) /\ \A j \in from..(i - 1) : ~Occurs(s, pat, j)
    ELSE npos
\* the characters of s between the positions i and j, and from i on
Between(s, i, j) == [k \in 1..(j - i - 1) |-> s[i + 1 + k]]
After(s, i) == [k \in 1..(Len(s) - i) |-> s[i + k]]
\* the position after a leading '@' tag block (it ends at the first space);
\* npos when the block never ends
TagEnd(line) ==
    IF Len(line) >= 1 /\ line[1] = "@"
    THEN IF First(line, <<" ">>, 0) = npos THEN npos
         ELSE First(line, <<" ">>, 0) + 1
    ELSE 0
\* the sender as the claim has it: between the first ':' after the tag
\* block and the '!' that follows; empty when there is none
SenderAfterFirstColon(line) ==
    LET start == TagEnd(line)
        c == IF start = npos THEN npos ELSE First(line, <<":">>, start)
        ex == IF c = npos THEN npos ELSE First(line, <<"!">>, c + 1)
    IN IF ex = npos THEN <<>> ELSE Between(line, c, ex)
\* the sender with the ':' required right where the tag block ends (at the
\* line's start when there is no block)
SenderAtPrefix(line) ==
    LET start == TagEnd(line)
        ok == start /= npos /\ start < Len(line) /\ line[start + 1] = ":"
        ex == IF ok THEN First(line, <<"!">>, start + 1) ELSE npos
    IN IF ex = npos THEN <<>> ELSE Between(line, start, ex)
\* the text after the first " :" that follows the marker
MessageText(line) ==
    LET priv == First(line, PRIVMSG, 0)
        c == IF priv = npos THEN npos ELSE First(line, <<" ", ":">>, priv)
    IN IF c = npos THEN [ok |-> FALSE, text |-> <<>>]
       ELSE [ok |-> TRUE, text |-> After(line, c + 2)]
JoinMatches(text) ==
    Len(text) >= Len(JoinCommand)
        /\ \A k \in 1..Len(JoinCommand) : tolower(text[k]) = JoinCommand[k]
\* the registry after a line that is not a keepalive, for a given reading
\* of the sender
RegistryAfterLine(line, open, sender, entries, idx) ==
    IF /\ MessageText(line).ok
       /\ JoinMatches(MessageText(line).text)
       /\ open
       /\ sender /= <<>>
       /\ sender \notin Names(entries)
    THEN Append(entries, [name |-> sender, color |-> idx % PaletteSize])
    ELSE entries
LineHandled == fn.kind = "line" /\ ~fn.handled /\ fn'.handled

\* C28 as the claim states it: a handled line that is no keepalive and
\* holds PRIVMSG, a " :" after it and a text whose lower-cased form starts
\* with !join puts the sender, read from the first ':' after the tag block
\* to the following '!', on the wheel when the gate is open; every other
\* line leaves the registry as it is.
C28_SenderFirstColon ==
    [][(LineHandled /\ ~BeginsWithPing(fn.line)) =>
          fn'.entries = RegistryAfterLine(fn.line, fn.join_open,
                                          SenderAfterFirstColon(fn.line),
                                          fn.entries, fn.idx)]_vars

\* C28, amended: the same with the sender read only from a ':' that stands
\* at the very start of the line or directly after the first space of a
\* leading '@' tag block; no ':' there means no sender and no change.
C28_SenderAtPrefix ==
    [][(LineHandled /\ ~BeginsWithPing(fn.line)) =>
          fn'.entries = RegistryAfterLine(fn.line, fn.join_open,
                                          SenderAtPrefix(fn.line),
                                          fn.entries, fn.idx)]_vars

\* "@t :b!b PRIVMSG #c :!JOINed" handled with the gate open and an empty
\* registry: b is on the wheel
C28_Witness ==
    /\ fn.kind = "line"
    /\ fn.handled
    /\ fn.join_open
    /\ fn.line = <<"@", "t", " ", ":", "b", "!", "b", " ">> \o PRIVMSG
                   \o <<" ", "#", "c", " ", ":", "!", "J", "O", "I", "N", "e", "d">>
    /\ fn.entries = <<[name |-> <<"b">>, color |-> 0]>>

\* ---------------------------------------------------------------------
\* C29.  Every read and every write of the registry is made by a thread
\* that holds entries_mutex, and no thread holds it when it sends or
\* receives on the socket or runs the physics and drawing of a frame.
C29_LockDiscipline ==
    fn.kind = "locks" =>
        /\ fn.last.step \in {"read", "write"} => fn.last.held
        /\ fn.last.step \in {"send", "recv", "sim"} => ~fn.last.held

\* ---------------------------------------------------------------------
\* C31.  No step of either thread taken while the wheel is spinning, and
\* leaving it spinning or showing the winner, changes the registry, and a
\* spinning wheel has at least two entries: the stopping frame resolves the
\* winner among the entries the spin started with.
C31_RegistryFixedInSpin ==
    /\ [][(app.spinning /\ (app'.spinning \/ winnerShowing(app')))
             => app'.entries = app.entries]_vars
    /\ [](app.spinning => Len(app.entries) >= 2)

\* ---------------------------------------------------------------------
\* C32.  Every append the chat thread makes to the registry is made with
\* the gate open: the step of the chat thread that appends finds join_open
\* true.
ChatAppends ==
    /\ chat_pc = "add"
    /\ chat_pc' /= "add"
    /\ Len(app'.entries) = Len(app.entries) + 1
C32_AppendWhileOpen ==
    [][ChatAppends => app.join_open]_vars

\* ---------------------------------------------------------------------
\* C33.  In every reachable state at most one of these holds: the gate is
\* open, the wheel is spinning, a winner is showing.
C33_PhasesExclusive ==
    /\ ~(app.join_open /\ app.spinning)
    /\ ~(app.join_open /\ winnerShowing(app))
    /\ ~(app.spinning /\ winnerShowing(app))

\* ---------------------------------------------------------------------
\* C34.  In every reachable state with a winner index, the index is a
\* position of the registry and celebration_name is the name of the entry
\* there, also after others were appended while the winner is showing.
C34_WinnerInRegistry ==
    app.winner_index >= 0 =>
        /\ app.winner_index < Len(app.entries)
        /\ app.celebration_name = app.entries[app.winner_index + 1].name

\* the spin of Alice and alice has stopped, bob was appended behind them,
\* and the winner is still the entry at its index
C34_Witness ==
    /\ app.winner_index >= 0
    /\ ~app.spinning
    /\ NameSeq(app.entries) = <<"Alice", "alice", "bob">>
    /\ app.celebration_name = app.entries[app.winner_index + 1].name

\* ---------------------------------------------------------------------
\* the step that ends a frame
TickEnds ==
    \/ \E dt \in Dts : Frame(dt) /\ main_pc' = "events"
    \/ Reseed /\ reseed_ret = "frame"

\* C35.  In every reachable state reset_hold_active is true exactly when
\* reset_hold_source is not 0, and reset_hold_elapsed is 0 when no hold is
\* active.  No frame ends with an active hold that has no winner showing or
\* requiredHold or more elapsed; a frame that finds a hold and no winner
\* cancels the hold and resets nothing (the registry and the gate stay).
C35_HoldConsistent ==
    /\ [](app.reset_hold_active <=> app.reset_hold_source /= SourceNone)
    /\ [](~app.reset_hold_active => app.reset_hold_elapsed = 0)
    /\ [][(app'.reset_hold_active
              /\ ~(winnerShowing(app')
                     /\ app'.reset_hold_elapsed < RequiredHold))
            => ~TickEnds]_vars
    /\ [][(app.reset_hold_active /\ ~winnerShowing(app)
              /\ \E dt \in Dts : Frame(dt)) =>
            /\ ~app'.reset_hold_active
            /\ app'.entries = app.entries
            /\ app'.join_open = app.join_open
            /\ main_pc' = "events"]_vars

\* a hold by the left button, half-way to requiredHold after a frame
C35_Witness ==
    /\ app.reset_hold_active
    /\ app.reset_hold_source = SourceMouse
    /\ app.reset_hold_elapsed = 1
    /\ winnerShowing(app)

\* ---------------------------------------------------------------------
\* C36.  In every reachable state with a hold active: space or left button
\* down, from either source, leaves the hold active with its source and its
\* elapsed time; the release of the other source changes nothing, and the
\* frame after it still adds dt to the elapsed time or, when that reaches
\* requiredHold with the winner showing, resets.
HoldSources == {SourceSpace, SourceMouse}
C36_HoldOwned ==
    (main_pc = "events" /\ app.reset_hold_active) =>
        \A source \in HoldSources, v \in SpinSpeeds, f \in SpinFrictions :
            /\ LET a == key_or_click_down(build, app, source, v, f).app
               IN /\ a.reset_hold_active
                  /\ a.reset_hold_source = app.reset_hold_source
                  /\ a.reset_hold_elapsed = app.reset_hold_elapsed
            /\ source /= app.reset_hold_source =>
                 /\ hold_release(app, source) = app
                 /\ \A dt \in Dts :
                      LET r == frame_locked(hold_release(app, source), dt, v, f)
                      IN winnerShowing(app) =>
                           IF app.reset_hold_elapsed + dt >= RequiredHold
                           THEN r.didReset /\ ~winnerShowing(r.app)
                           ELSE /\ ~r.didReset
                                /\ r.app.reset_hold_active
                                /\ r.app.reset_hold_elapsed
                                     = app.reset_hold_elapsed + dt

\* a hold by the space key, half-way to requiredHold, the winner showing
C36_Witness ==
    /\ main_pc = "events"
    /\ app.reset_hold_active
    /\ app.reset_hold_source = SourceSpace
    /\ app.reset_hold_elapsed = 1
    /\ winnerShowing(app)

\* ---------------------------------------------------------------------
\* C37.  No thread reaches the constructor of a lock_guard on entries_mutex
\* while it holds the mutex, and a thread that has reached one gets the
\* mutex.
AtLock(t) == fn.todo[t] /= <<>> /\ Head(fn.todo[t]) = "lock"
C38_IdleTick ==
    /\ [](
         (main_pc = "events" /\ ~app.spinning) =>
            \A dt \in Dts, v \in SpinSpeeds, f \in SpinFrictions :
                ~hold_completes(app, dt) =>
                    LET a == frame_no_reseed(app, dt, v, f)
                    IN /\ a.current_angle = app.current_angle
                       /\ a.angular_velocity = app.angular_velocity
                       /\ a.spin_friction = app.spin_friction
                       /\ a.winner_index = app.winner_index
                       /\ a.join_open = app.join_open
                       /\ a.entries = app.entries
                       /\ ~frame_locked(app, dt, v, f).didReset)
    /\ [][~app.spinning => app'.current_angle = app.current_angle]_vars

\* a spin that has just started, at full speed, from an angle other than
\* the initial 0: the wheel is where the spin before left it
C38_Witness ==
    /\ app.spinning
    /\ ~winnerShowing(app)
    /\ app.angular_velocity = 8
    /\ app.current_angle /= 0
====
